---- MODULE Spec2Model ----
(***************************************************************************)
(* A model of the bagslotto lottery: ticket computation, entry building,   *)
(* verifiable winner selection, snapshot and verification                  *)
(* (src/lib/lottery.ts), the eligibility checker with its cache and the    *)
(* batch check (src/lib/helius.ts), the holder listings of both providers  *)
(* (src/lib/birdeye.ts, src/lib/helius.ts) and the draw request that ties  *)
(* them together (src/unnamed/part_000).                                   *)
(*                                                                         *)
(* Strings are sequences of character codes, so that the comparisons,      *)
(* prefix tests and hexadecimal parsing of the code are computed and not   *)
(* assumed.                                                                *)
(***************************************************************************)
EXTENDS Integers, Sequences, FiniteSets, TLC

VARIABLES
    \* ---- ticket computation and entry building (lottery.ts 44-79)
    lastCalc,        \* the last calculateTickets call: {balance, tickets}
    prevCalc,        \* the calculateTickets call before it
    holders,         \* the holder list handed to buildLotteryEntries
    eligibilityMap,  \* the eligibility map handed to it: wallet -> {eligible, reason}
    built,           \* its return value, or NotCalled
    \* ---- verifiable draw (lottery.ts 136-232)
    entries,         \* the caller's entry list
    blockHash,       \* the seed handed to pickWinnerVerifiable / verifyResult
    snapshot,        \* return value of createSnapshot, or NotCalled
    result,          \* outcome of pickWinnerVerifiable, or NotCalled
    verification,    \* outcome of verifyResult, or NotCalled
    randomResult,    \* outcome of pickWinner, or NotCalled
    \* ---- eligibility checker (helius.ts 6-86, 300-305)
    eligibilityCache,\* the module-level Map: cache key -> {eligible, reason, timestamp}
    now,             \* Date.now()
    ticks,           \* number of clock advances so far
    inflight,        \* (mint, wallet) -> number of hasNeverSold calls awaiting their response
    lastCall,        \* history: the hasNeverSold call started last
    lastQuery,       \* history: (mint, wallet) -> the last history query completed less than
                     \*   CACHE_TTL ago and after the last clear, or None
    cleared,         \* history: (mint, wallet) -> cleared and not checked since
    \* ---- batchCheckSells (helius.ts 92-132)
    wallets,         \* the wallets handed to batchCheckSells
    history,         \* what the history provider answers for each wallet
    batchIndex,      \* i, the start of the current batch
    phase,           \* where batchCheckSells stands
    batchResults,    \* index -> result of the checks of the current batch that resolved
    results,         \* the Map being filled: wallet -> {eligible, reason}
    processed,       \* processed
    progress,        \* the onProgress calls made so far: <<checked, total>>
    started,         \* history: indices whose check was started
    completed,       \* history: indices whose check resolved
    fetched,         \* history: indices whose check sent a history request
    onProgress,      \* whether the caller passed an onProgress callback
    \* ---- holder listing (birdeye.ts 30-93, helius.ts 182-261)
    provider,        \* the listing being paginated: "birdeye", "helius" or "none"
    maxHolders,      \* maxHolders
    offset,          \* offset of the birdeye listing
    cursor,          \* cursor of the helius listing, Undefined at first
    fetchHolders,    \* holders, the list being accumulated and returned
    fetchPhase,      \* where the listing stands
    pageLog,         \* history: the page requests sent and what they got
    \* ---- the draw request (part_000 106-227)
    postPhase,       \* where the POST handler stands
    birdeyeKey,      \* whether BIRDEYE_API_KEY is set
    action,          \* body.action
    allHolders,      \* allHolders
    usedSource,      \* usedSource
    eligibleHolders, \* eligibleHolders
    postResponse     \* the response of the handler, or NotCalled

vars == <<lastCalc, prevCalc, holders, eligibilityMap, built, entries, blockHash, snapshot, result,
          verification, randomResult, eligibilityCache, now, ticks, inflight, lastCall, lastQuery,
          cleared, wallets, history, batchIndex, phase, batchResults, results, processed,
          progress, started, completed, fetched, onProgress, provider, maxHolders, offset,
          cursor, fetchHolders, fetchPhase, pageLog, postPhase, birdeyeKey, action,
          allHolders, usedSource, eligibleHolders, postResponse>>

calcVars  == <<lastCalc, prevCalc>>
buildVars == <<holders, eligibilityMap, built>>
drawVars  == <<entries, blockHash, snapshot, result, verification, randomResult>>
cacheVars == <<eligibilityCache, now, ticks, inflight, lastCall, lastQuery, cleared>>
batchVars == <<wallets, history, batchIndex, phase, batchResults, results, processed,
               progress, started, completed, fetched, onProgress>>
fetchVars == <<provider, maxHolders, offset, cursor, fetchHolders, fetchPhase, pageLog>>
postVars  == <<postPhase, birdeyeKey, action, allHolders, usedSource, eligibleHolders,
               postResponse>>
restVars  == <<batchVars, fetchVars, postVars>>

-----------------------------------------------------------------------------
(* Generic helpers *)

Min(a, b) == IF a <= b THEN a ELSE b

Range(s) == {s[i] : i \in 1..Len(s)}

\* Array.prototype.filter
RECURSIVE SelectSeqFn(_, _)
SelectSeqFn(s, keep) ==
    IF s = <<>> THEN <<>>
    ELSE (IF keep[Head(s)] THEN <<Head(s)>> ELSE <<>>) \o SelectSeqFn(Tail(s), keep)

\* All sequences over S of length 0..n
SeqsUpTo(S, n) == UNION {[1..k -> S] : k \in 0..n}

SleepSkipped(t, ms) == t

\* await new Promise(resolve => setTimeout(resolve, ms)), entered at time t:
\* the time at which the code goes on, at the earliest
SleepUntil(t, ms) == t + ms

\* undefined, where a text may stand (texts are sequences)
Undefined == <<"undefined">>
NotCalled == [kind |-> "notCalled"]

-----------------------------------------------------------------------------
(* Wallet addresses and String.prototype.localeCompare *)

\* "B", "aB", "Ab": upper and lower case letters, as in base58 addresses
Wallets == {<<66>>, <<97, 66>>, <<65, 98>>}

IsDigit(c) == c >= 48 /\ c <= 57
IsUpper(c) == c >= 65 /\ c <= 90
IsLower(c) == c >= 97 /\ c <= 122

\* Primary collation weight: digits before letters, letters without case
PrimaryWeight(c) ==
    IF IsDigit(c) THEN c - 48
    ELSE IF IsUpper(c) THEN 10 + (c - 65)
    ELSE IF IsLower(c) THEN 10 + (c - 97)
    ELSE 100 + c

\* Tertiary collation weight: lower case before upper case
TertiaryWeight(c) == IF IsUpper(c) THEN 1 ELSE 0

\* lexicographic comparison of two sequences of weights: -1, 0 or 1
RECURSIVE CompareWeights(_, _)
CompareWeights(a, b) ==
    IF a = <<>> /\ b = <<>> THEN 0
    ELSE IF a = <<>> THEN -1
    ELSE IF b = <<>> THEN 1
    ELSE IF Head(a) < Head(b) THEN -1
    ELSE IF Head(a) > Head(b) THEN 1
    ELSE CompareWeights(Tail(a), Tail(b))

\* a.localeCompare(b) under the default (root) collation: the primary weights
\* decide; when they tie the case of the first differing letter decides.
localeCompare(a, b) ==
    LET pa == [i \in 1..Len(a) |-> PrimaryWeight(a[i])]
        pb == [i \in 1..Len(b) |-> PrimaryWeight(b[i])]
        ta == [i \in 1..Len(a) |-> TertiaryWeight(a[i])]
        tb == [i \in 1..Len(b) |-> TertiaryWeight(b[i])]
        p  == CompareWeights(pa, pb)
    IN IF p # 0 THEN p ELSE CompareWeights(ta, tb)

\* One step of a stable sort: e goes after every element that does not
\* compare greater than it.
RECURSIVE InsertByWallet(_, _)
InsertByWallet(sorted, e) ==
    IF sorted = <<>> THEN <<e>>
    ELSE IF localeCompare(Head(sorted).wallet, e.wallet) <= 0
         THEN <<Head(sorted)>> \o InsertByWallet(Tail(sorted), e)
         ELSE <<e>> \o sorted

RECURSIVE SortFrom(_, _)
SortFrom(sorted, rest) ==
    IF rest = <<>> THEN sorted
    ELSE SortFrom(InsertByWallet(sorted, Head(rest)), Tail(rest))

NoSort(list) == list

\* list.sort((a, b) => a.wallet.localeCompare(b.wallet)); Array.prototype.sort is stable
SortByWallet(list) == SortFrom(<<>>, list)

ArgumentSortedInPlace(list) == SortByWallet(list)

\* an array handed to pickWinner, pickWinnerVerifiable, createSnapshot or
\* verifyResult, after the call: filter() makes a new array and sort() orders
\* that one in place, the for-of loops only read
ArgumentAfterCall(list) == list

-----------------------------------------------------------------------------
(* Tickets and entries *)

TOKENS_PER_TICKET == 10000
MAX_TOKENS == 20000000
MAX_TICKETS == 2000

calculateTicketsCeil(balance) ==
    LET cappedBalance == Min(balance, MAX_TOKENS)
        tickets == (cappedBalance + TOKENS_PER_TICKET - 1) \div TOKENS_PER_TICKET
    IN Min(tickets, MAX_TICKETS)

\* Math.min(Math.floor(Math.min(balance, MAX_TOKENS) / TOKENS_PER_TICKET), MAX_TICKETS)
calculateTickets(balance) ==
    LET cappedBalance == Min(balance, MAX_TOKENS)
        tickets == cappedBalance \div TOKENS_PER_TICKET
    IN Min(tickets, MAX_TICKETS)

EligibleOfAnyFlag(list) ==
    SelectSeqFn(list, [e \in Range(list) |-> e.tickets > 0])

\* entries.filter(e => e.eligible && e.tickets > 0)
EligibleOf(list) ==
    SelectSeqFn(list, [e \in Range(list) |-> e.eligible /\ e.tickets > 0])

\* eligible.reduce((sum, e) => sum + e.tickets, 0)
RECURSIVE SumTickets(_)
SumTickets(list) ==
    IF list = <<>> THEN 0 ELSE Head(list).tickets + SumTickets(Tail(list))

buildLotteryEntriesNoFloor(holderList, eligibility) ==
    LET Entry(h) ==
            [wallet   |-> h.owner,
             balance  |-> h.balance,
             tickets  |-> calculateTickets(h.balance),
             eligible |-> IF h.owner \in DOMAIN eligibility
                          THEN eligibility[h.owner].eligible ELSE FALSE,
             reason   |-> IF h.owner \in DOMAIN eligibility
                          THEN eligibility[h.owner].reason ELSE Undefined]
    IN [i \in 1..Len(holderList) |-> Entry(holderList[i])]

buildLotteryEntriesFailOpen(holderList, eligibility) ==
    LET kept == SelectSeqFn(holderList,
                    [h \in Range(holderList) |-> ~(calculateTickets(h.balance) < 1)])
        Entry(h) ==
            [wallet   |-> h.owner,
             balance  |-> h.balance,
             tickets  |-> calculateTickets(h.balance),
             eligible |-> IF h.owner \in DOMAIN eligibility
                          THEN eligibility[h.owner].eligible ELSE TRUE,
             reason   |-> IF h.owner \in DOMAIN eligibility
                          THEN eligibility[h.owner].reason ELSE Undefined]
    IN [i \in 1..Len(kept) |-> Entry(kept[i])]

\* for (const holder of holders): skip when tickets < 1, else push the entry
\* with eligible: eligibility?.eligible ?? false, reason: eligibility?.reason
buildLotteryEntries(holderList, eligibility) ==
    LET kept == SelectSeqFn(holderList,
                    [h \in Range(holderList) |-> ~(calculateTickets(h.balance) < 1)])
        Entry(h) ==
            [wallet   |-> h.owner,
             balance  |-> h.balance,
             tickets  |-> calculateTickets(h.balance),
             eligible |-> IF h.owner \in DOMAIN eligibility
                          THEN eligibility[h.owner].eligible ELSE FALSE,
             reason   |-> IF h.owner \in DOMAIN eligibility
                          THEN eligibility[h.owner].reason ELSE Undefined]
    IN [i \in 1..Len(kept) |-> Entry(kept[i])]

-----------------------------------------------------------------------------
(* Seed to winning ticket *)

\* blockHash.startsWith('0x')
StartsWith0x(s) == Len(s) >= 2 /\ s[1] = 48 /\ s[2] = 120

\* blockHash.startsWith('0x') ? blockHash.slice(2) : blockHash
CleanHash(s) == IF StartsWith0x(s) THEN SubSeq(s, 3, Len(s)) ELSE s

\* value of one hexadecimal digit, -1 for any other character
HexDigit(c) ==
    IF IsDigit(c) THEN c - 48
    ELSE IF c >= 97 /\ c <= 102 THEN c - 87
    ELSE IF c >= 65 /\ c <= 70 THEN c - 55
    ELSE -1

\* BigInt('0x' + clean) parses: at least one digit, hexadecimal digits only
IsHexLiteral(clean) ==
    Len(clean) > 0 /\ \A i \in 1..Len(clean) : HexDigit(clean[i]) >= 0

\* BigInt('0x' + clean) % BigInt(m): the remainder of the whole number, digit
\* by digit from the most significant one (no intermediate value reaches 16 * m)
RECURSIVE HashModFrom(_, _, _)
HashModFrom(acc, clean, m) ==
    IF clean = <<>> THEN acc
    ELSE HashModFrom((acc * 16 + HexDigit(Head(clean))) % m, Tail(clean), m)

\* the same with the number first cut to its low 64 bits (16 digits)
HashModTruncated(clean, m) ==
    LET low == IF Len(clean) > 16 THEN SubSeq(clean, Len(clean) - 15, Len(clean))
               ELSE clean
    IN HashModFrom(0, low, m)

\* hashBigInt % BigInt(totalTickets)
HashMod(clean, m) == HashModFrom(0, clean, m)

SyntaxError == [kind |-> "throw", error |-> "SyntaxError"]
RangeError  == [kind |-> "throw", error |-> "RangeError: Division by zero"]

\* cleanHash, hashBigInt, winningTicketBigInt, winningTicket
WinningTicket(hash, totalTickets) ==
    LET cleanHash == CleanHash(hash)
    IN IF ~IsHexLiteral(cleanHash) THEN SyntaxError
       ELSE IF totalTickets = 0 THEN RangeError
       ELSE [kind |-> "ok", cleanHash |-> cleanHash,
             winningTicket |-> HashMod(cleanHash, totalTickets) + 1]

RECURSIVE FindWinnerStrictFrom(_, _, _, _)
FindWinnerStrictFrom(list, i, ticketCount, winningTicket) ==
    IF i > Len(list) THEN 0
    ELSE IF ticketCount + list[i].tickets > winningTicket THEN i
    ELSE FindWinnerStrictFrom(list, i + 1, ticketCount + list[i].tickets, winningTicket)

FindWinnerStrict(list, winningTicket) == FindWinnerStrictFrom(list, 1, 0, winningTicket)

\* the loop: ticketCount += entry.tickets; if (ticketCount >= winningTicket) return
RECURSIVE FindWinnerFrom(_, _, _, _)
FindWinnerFrom(list, i, ticketCount, winningTicket) ==
    IF i > Len(list) THEN 0
    ELSE IF ticketCount + list[i].tickets >= winningTicket THEN i
    ELSE FindWinnerFrom(list, i + 1, ticketCount + list[i].tickets, winningTicket)

\* index of the entry the walk returns, 0 when the loop falls through
FindWinner(list, winningTicket) == FindWinnerFrom(list, 1, 0, winningTicket)

Null == [kind |-> "null"]

pickWinnerVerifiableUnguarded(list, hash, blockSlot) ==
    LET sorted == SortByWallet(EligibleOf(list))
        totalTickets == SumTickets(sorted)
        wt == WinningTicket(hash, totalTickets)
    IN IF wt.kind = "throw" THEN wt
       ELSE LET i == FindWinner(sorted, wt.winningTicket)
            IN IF i = 0 THEN Null
               ELSE [kind |-> "result",
                     winner |-> sorted[i],
                     totalTickets |-> totalTickets,
                     totalEligible |-> Len(sorted),
                     winningTicket |-> wt.winningTicket,
                     blockHash |-> wt.cleanHash,
                     blockSlot |-> blockSlot]

pickWinnerVerifiable(list, hash, blockSlot) ==
    LET eligible == EligibleOf(list)
    IN IF Len(eligible) = 0 THEN Null
       ELSE LET sorted == SortByWallet(eligible)
                totalTickets == SumTickets(sorted)
                wt == WinningTicket(hash, totalTickets)
            IN IF wt.kind = "throw" THEN wt
               ELSE LET i == FindWinner(sorted, wt.winningTicket)
                    IN IF i = 0 THEN Null
                       ELSE [kind |-> "result",
                             winner |-> sorted[i],
                             totalTickets |-> totalTickets,
                             totalEligible |-> Len(sorted),
                             winningTicket |-> wt.winningTicket,
                             blockHash |-> wt.cleanHash,
                             blockSlot |-> blockSlot]

createSnapshotUnsorted(list, tokenMint) ==
    LET eligible == EligibleOf(list)
    IN [entries |-> eligible,
        totalTickets |-> SumTickets(eligible),
        totalEligible |-> Len(eligible),
        tokenMint |-> tokenMint]

createSnapshotAllTickets(list, tokenMint) ==
    LET eligible == SortByWallet(EligibleOf(list))
    IN [entries |-> eligible,
        totalTickets |-> SumTickets(list),
        totalEligible |-> Len(eligible),
        tokenMint |-> tokenMint]

\* snapshotTime (Date.now()) is not read by any operation and is left out
createSnapshot(list, tokenMint) ==
    LET eligible == SortByWallet(EligibleOf(list))
    IN [entries |-> eligible,
        totalTickets |-> SumTickets(eligible),
        totalEligible |-> Len(eligible),
        tokenMint |-> tokenMint]

verifyResult(snap, hash, claimedWinner) ==
    LET wt == WinningTicket(hash, snap.totalTickets)
    IN IF wt.kind = "throw" THEN wt
       ELSE LET i == FindWinner(snap.entries, wt.winningTicket)
            IN IF i = 0
               THEN [kind |-> "verification", valid |-> FALSE,
                     calculatedWinner |-> <<>>, winningTicket |-> wt.winningTicket]
               ELSE [kind |-> "verification",
                     valid |-> (snap.entries[i].wallet = claimedWinner),
                     calculatedWinner |-> snap.entries[i].wallet,
                     winningTicket |-> wt.winningTicket]

-----------------------------------------------------------------------------
(* Values of the variables a specification does not use *)

IdleCalc  == lastCalc = NotCalled /\ prevCalc = NotCalled
IdleBuild == holders = <<>> /\ eligibilityMap = <<>> /\ built = NotCalled
IdleDraw  == /\ entries = <<>>
             /\ blockHash = <<>>
             /\ snapshot = NotCalled
             /\ result = NotCalled
             /\ verification = NotCalled
             /\ randomResult = NotCalled
IdleBatch == /\ wallets = <<>>
             /\ history = <<>>
             /\ batchIndex = 0
             /\ phase = "idle"
             /\ batchResults = <<>>
             /\ results = <<>>
             /\ processed = 0
             /\ progress = <<>>
             /\ started = {}
             /\ completed = {}
             /\ fetched = {}
             /\ onProgress = FALSE
IdleFetch == /\ provider = "none"
             /\ maxHolders = 0
             /\ offset = 0
             /\ cursor = Undefined
             /\ fetchHolders = <<>>
             /\ fetchPhase = "idle"
             /\ pageLog = <<>>
IdlePost  == /\ postPhase = "idle"
             /\ birdeyeKey = FALSE
             /\ action = Undefined
             /\ allHolders = <<>>
             /\ usedSource = Undefined
             /\ eligibleHolders = <<>>
             /\ postResponse = NotCalled
IdleRest  == IdleBatch /\ IdleFetch /\ IdlePost
IdleCache == /\ eligibilityCache = <<>>
             /\ now = 0
             /\ ticks = 0
             /\ inflight = <<>>
             /\ lastCall = NotCalled
             /\ lastQuery = <<>>
             /\ cleared = <<>>

-----------------------------------------------------------------------------
(* calculateTickets *)

MaxLowTickets == 3

\* balances around every threshold of the function, 50,000,000 included
Balances ==
    {k * TOKENS_PER_TICKET + d :
        k \in (0..MaxLowTickets) \cup {MAX_TICKETS - 1, MAX_TICKETS, MAX_TICKETS + 1, 5000},
        d \in {0, 1, 5000, 9999}}

InitTickets == IdleCalc /\ IdleBuild /\ IdleDraw /\ IdleCache /\ IdleRest

CalculateTickets ==
    \E balance \in Balances :
        /\ prevCalc' = lastCalc
        /\ lastCalc' = [kind |-> "calc", balance |-> balance,
                        tickets |-> calculateTickets(balance)]
        /\ UNCHANGED <<buildVars, drawVars, cacheVars, restVars>>

NextTickets == CalculateTickets

SpecTickets == InitTickets /\ [][NextTickets]_vars

-----------------------------------------------------------------------------
(* buildLotteryEntries *)

MaxHolders == 3

\* below the threshold, one ticket, two tickets
HolderBalances == {5000, 15000, 25000}

Holders == [owner : Wallets, balance : HolderBalances]

EligibilityResults ==
    {[eligible |-> TRUE, reason |-> Undefined],
     [eligible |-> FALSE, reason |-> <<"Sold/transferred", 5, "tokens">>]}

\* Map<string, {eligible, reason}>: a function on the wallets that have a key
EligibilityMaps == UNION {[ws -> EligibilityResults] : ws \in SUBSET Wallets}

InitBuild ==
    /\ IdleCalc /\ IdleDraw /\ IdleCache /\ IdleRest
    /\ holders \in SeqsUpTo(Holders, MaxHolders)
    /\ eligibilityMap \in EligibilityMaps
    /\ built = NotCalled

BuildLotteryEntries ==
    /\ built = NotCalled
    /\ built' = [kind |-> "built", entries |-> buildLotteryEntries(holders, eligibilityMap)]
    /\ UNCHANGED <<holders, eligibilityMap, calcVars, drawVars, cacheVars, restVars>>

NextBuild == BuildLotteryEntries

SpecBuild == InitBuild /\ [][NextBuild]_vars

-----------------------------------------------------------------------------
(* The verifiable draw: createSnapshot, pickWinnerVerifiable, verifyResult *)

MaxEntries == 2

\* entries a caller may pass: zero-ticket and ineligible ones included
EntryDomain ==
    {[wallet |-> w, balance |-> t * TOKENS_PER_TICKET, tickets |-> t,
      eligible |-> e, reason |-> Undefined] :
        w \in Wallets, t \in {0, 1, 2}, e \in BOOLEAN}

\* "0", "5", "0x5", "ff", "0xFF", 2^64 = "10000000000000000",
\* "0x10000000000000001", and three strings BigInt rejects: "", "0x", "g5"
Seeds ==
    {<<48>>, <<53>>, <<48, 120, 53>>, <<102, 102>>, <<48, 120, 70, 70>>,
     <<49, 48, 48, 48, 48, 48, 48, 48, 48, 48, 48, 48, 48, 48, 48, 48, 48>>,
     <<48, 120, 49, 48, 48, 48, 48, 48, 48, 48, 48, 48, 48, 48, 48, 48, 48, 48, 49>>,
     <<>>, <<48, 120>>, <<103, 53>>}

\* "M"
TokenMints == {<<77>>}

BlockSlots == {1}

InitDraw ==
    /\ IdleCalc /\ IdleBuild /\ IdleCache /\ IdleRest
    /\ entries \in SeqsUpTo(EntryDomain, MaxEntries)
    /\ blockHash \in Seeds
    /\ snapshot = NotCalled
    /\ result = NotCalled
    /\ verification = NotCalled
    /\ randomResult = NotCalled

CreateSnapshot ==
    /\ snapshot = NotCalled
    /\ \E tokenMint \in TokenMints :
          snapshot' = [kind |-> "snapshot", value |-> createSnapshot(entries, tokenMint)]
    /\ entries' = ArgumentAfterCall(entries)
    /\ UNCHANGED <<blockHash, result, verification, randomResult, calcVars, buildVars, cacheVars, restVars>>

\* the draw on the caller's list
PickWinnerVerifiable ==
    /\ result = NotCalled
    /\ \E blockSlot \in BlockSlots :
          result' = [kind |-> "picked", from |-> "entries",
                     value |-> pickWinnerVerifiable(entries, blockHash, blockSlot)]
    /\ entries' = ArgumentAfterCall(entries)
    /\ UNCHANGED <<blockHash, snapshot, verification, randomResult, calcVars, buildVars, cacheVars, restVars>>

\* the draw on the published snapshot's entries
PickWinnerFromSnapshot ==
    /\ result = NotCalled
    /\ snapshot # NotCalled
    /\ \E blockSlot \in BlockSlots :
          result' = [kind |-> "picked", from |-> "snapshot",
                     value |-> pickWinnerVerifiable(snapshot.value.entries, blockHash, blockSlot)]
    /\ snapshot' = [snapshot EXCEPT !.value.entries = ArgumentAfterCall(@)]
    /\ UNCHANGED <<entries, blockHash, verification, randomResult, calcVars, buildVars, cacheVars, restVars>>

VerifyResult ==
    /\ verification = NotCalled
    /\ snapshot # NotCalled
    /\ result # NotCalled
    /\ \E claimedWinner \in Wallets :
          verification' = [kind |-> "verified", claimedWinner |-> claimedWinner,
                           value |-> verifyResult(snapshot.value, blockHash, claimedWinner)]
    /\ snapshot' = [snapshot EXCEPT !.value.entries = ArgumentAfterCall(@)]
    /\ UNCHANGED <<entries, blockHash, result, randomResult, calcVars, buildVars, cacheVars, restVars>>

NextDraw ==
    \/ CreateSnapshot
    \/ PickWinnerVerifiable
    \/ PickWinnerFromSnapshot
    \/ VerifyResult

SpecDraw == InitDraw /\ [][NextDraw]_vars

-----------------------------------------------------------------------------
(* The eligibility checker: hasNeverSold and its cache *)

CACHE_TTL == 300000

NumCalls == 2
MaxTicks == 2

\* "B" and "aB"
CacheWallets == {<<66>>, <<97, 66>>}

\* the mint asked about, "M", and another one, "N"
OtherMint == <<78>>
\* transfers of the token by each wallet, a zero-amount one and one of another mint
Transfers ==
    [mint : TokenMints, fromUserAccount : CacheWallets, tokenAmount : {5}]
        \cup [mint : TokenMints, fromUserAccount : {<<66>>}, tokenAmount : {0}]
        \cup [mint : {OtherMint}, fromUserAccount : {<<66>>}, tokenAmount : {5}]

\* ParsedTransaction: tokenTransfers is optional
Transactions ==
    {[signature |-> <<83>>]}
        \cup {[signature |-> <<83>>, tokenTransfers |-> <<t>>] : t \in Transfers}

\* what fetch() can bring: a thrown error, a non-ok status, or a history
Responses ==
    {[kind |-> "throw"], [kind |-> "http", ok |-> FALSE, status |-> 429]}
        \cup {[kind |-> "http", ok |-> TRUE, body |-> txs] :
                 txs \in SeqsUpTo(Transactions, 1)}

Pairs == TokenMints \X CacheWallets

None == [kind |-> "none"]

CacheKeyMintOnly(tokenMint, walletAddress) == tokenMint \o <<58>>

\* `${tokenMint}:${walletAddress}`
CacheKey(tokenMint, walletAddress) == tokenMint \o <<58>> \o walletAddress

IsFreshReversed(cached, t) == t - cached.timestamp > CACHE_TTL

\* Date.now() - cached.timestamp < CACHE_TTL
IsFresh(cached, t) == t - cached.timestamp < CACHE_TTL

\* cached && Date.now() - cached.timestamp < CACHE_TTL
CacheHit(tokenMint, walletAddress) ==
    LET cacheKey == CacheKey(tokenMint, walletAddress)
    IN cacheKey \in DOMAIN eligibilityCache /\ IsFresh(eligibilityCache[cacheKey], now)

RECURSIVE FirstSaleInAnySender(_, _, _)
FirstSaleInAnySender(transfers, tokenMint, walletAddress) ==
    IF transfers = <<>> THEN None
    ELSE IF Head(transfers).mint = tokenMint /\ Head(transfers).tokenAmount > 0
         THEN [kind |-> "transfer", tokenAmount |-> Head(transfers).tokenAmount]
         ELSE FirstSaleInAnySender(Tail(transfers), tokenMint, walletAddress)

\* the first outgoing transfer of the token in the history, None when there is none:
\* mint === tokenMint && fromUserAccount === walletAddress && tokenAmount > 0
RECURSIVE FirstSaleIn(_, _, _)
FirstSaleIn(transfers, tokenMint, walletAddress) ==
    IF transfers = <<>> THEN None
    ELSE IF /\ Head(transfers).mint = tokenMint
            /\ Head(transfers).fromUserAccount = walletAddress
            /\ Head(transfers).tokenAmount > 0
         THEN [kind |-> "transfer", tokenAmount |-> Head(transfers).tokenAmount]
         ELSE FirstSaleIn(Tail(transfers), tokenMint, walletAddress)

RECURSIVE FirstSale(_, _, _)
FirstSale(transactions, tokenMint, walletAddress) ==
    IF transactions = <<>> THEN None
    ELSE LET tx == Head(transactions)
             found == IF "tokenTransfers" \notin DOMAIN tx THEN None
                      ELSE FirstSaleIn(tx.tokenTransfers, tokenMint, walletAddress)
         IN IF found # None THEN found
            ELSE FirstSale(Tail(transactions), tokenMint, walletAddress)

OutcomeFailOpen(response, tokenMint, walletAddress) ==
    IF response.kind = "throw" \/ ~response.ok
    THEN [cache |-> FALSE, result |-> [eligible |-> TRUE, reason |-> Undefined]]
    ELSE LET sale == FirstSale(response.body, tokenMint, walletAddress)
         IN IF sale # None
            THEN [cache |-> TRUE,
                  result |-> [eligible |-> FALSE,
                              reason |-> <<"Sold/transferred", sale.tokenAmount, "tokens">>]]
            ELSE [cache |-> TRUE,
                  result |-> [eligible |-> TRUE, reason |-> Undefined]]

OutcomeCachesFailure(response, tokenMint, walletAddress) ==
    IF response.kind = "throw"
    THEN [cache |-> TRUE,
          result |-> [eligible |-> FALSE,
                      reason |-> <<"Error checking transaction history">>]]
    ELSE IF ~response.ok
    THEN [cache |-> TRUE,
          result |-> [eligible |-> FALSE, reason |-> <<"API error", response.status>>]]
    ELSE LET sale == FirstSale(response.body, tokenMint, walletAddress)
         IN IF sale # None
            THEN [cache |-> TRUE,
                  result |-> [eligible |-> FALSE,
                              reason |-> <<"Sold/transferred", sale.tokenAmount, "tokens">>]]
            ELSE [cache |-> TRUE,
                  result |-> [eligible |-> TRUE, reason |-> Undefined]]

\* what hasNeverSold returns for a response, and whether it caches it
Outcome(response, tokenMint, walletAddress) ==
    IF response.kind = "throw"
    THEN [cache |-> FALSE,
          result |-> [eligible |-> FALSE,
                      reason |-> <<"Error checking transaction history">>]]
    ELSE IF ~response.ok
    THEN [cache |-> FALSE,
          result |-> [eligible |-> FALSE, reason |-> <<"API error", response.status>>]]
    ELSE LET sale == FirstSale(response.body, tokenMint, walletAddress)
         IN IF sale # None
            THEN [cache |-> TRUE,
                  result |-> [eligible |-> FALSE,
                              reason |-> <<"Sold/transferred", sale.tokenAmount, "tokens">>]]
            ELSE [cache |-> TRUE,
                  result |-> [eligible |-> TRUE, reason |-> Undefined]]

InitCache ==
    /\ IdleCalc /\ IdleBuild /\ IdleDraw /\ IdleRest
    /\ eligibilityCache = <<>>
    /\ now = 0
    /\ ticks = 0
    /\ inflight = [p \in Pairs |-> 0]
    /\ lastCall = NotCalled
    /\ lastQuery = [p \in Pairs |-> None]
    /\ cleared = [p \in Pairs |-> FALSE]

\* history: the last history query completed for the pair, if it completed
\* less than CACHE_TTL ago and the cache was not cleared since
RecentQuery(tokenMint, walletAddress) ==
    LET q == lastQuery[<<tokenMint, walletAddress>>]
    IN IF q # None /\ now - q.doneAt < CACHE_TTL
       THEN [kind |-> "query", ok |-> q.ok, result |-> q.result]
       ELSE None

\* history: what is known of a call when it starts
Started(walletAddress, tokenMint) ==
    LET cacheKey == CacheKey(tokenMint, walletAddress)
    IN [kind |-> "call",
        wallet |-> walletAddress,
        mint |-> tokenMint,
        network |-> FALSE,
        result |-> None,
        prev |-> RecentQuery(tokenMint, walletAddress),
        afterClear |-> cleared[<<tokenMint, walletAddress>>],
        expired |-> /\ cacheKey \in DOMAIN eligibilityCache
                    /\ now - eligibilityCache[cacheKey].timestamp >= CACHE_TTL]

RECURSIVE SumOver(_, _)
SumOver(f, S) ==
    IF S = {} THEN 0
    ELSE LET x == CHOOSE y \in S : TRUE IN f[x] + SumOver(f, S \ {x})

\* hasNeverSold, the cache holds a fresh entry: return it, no request
HasNeverSoldCached(walletAddress, tokenMint) ==
    /\ CacheHit(tokenMint, walletAddress)
    /\ LET cached == eligibilityCache[CacheKey(tokenMint, walletAddress)]
       IN lastCall' = [Started(walletAddress, tokenMint) EXCEPT
                !.result = [eligible |-> cached.eligible, reason |-> cached.reason]]
    /\ cleared' = [cleared EXCEPT ![<<tokenMint, walletAddress>>] = FALSE]
    /\ UNCHANGED <<eligibilityCache, now, ticks, inflight, lastQuery>>
    /\ UNCHANGED <<calcVars, buildVars, drawVars, restVars>>

\* hasNeverSold, no fresh entry: the history request is sent and awaited
HasNeverSoldFetch(walletAddress, tokenMint) ==
    /\ SumOver(inflight, Pairs) < NumCalls
    /\ ~CacheHit(tokenMint, walletAddress)
    /\ inflight' = [inflight EXCEPT ![<<tokenMint, walletAddress>>] = @ + 1]
    /\ lastCall' = [Started(walletAddress, tokenMint) EXCEPT !.network = TRUE]
    /\ cleared' = [cleared EXCEPT ![<<tokenMint, walletAddress>>] = FALSE]
    /\ UNCHANGED <<eligibilityCache, now, ticks, lastQuery>>
    /\ UNCHANGED <<calcVars, buildVars, drawVars, restVars>>

\* the response arrives: the rest of hasNeverSold runs
HasNeverSoldRespond(walletAddress, tokenMint, response) ==
    /\ inflight[<<tokenMint, walletAddress>>] > 0
    /\ inflight' = [inflight EXCEPT ![<<tokenMint, walletAddress>>] = @ - 1]
    /\ LET out == Outcome(response, tokenMint, walletAddress)
       IN /\ eligibilityCache' =
                IF out.cache
                THEN (CacheKey(tokenMint, walletAddress) :>
                        [eligible |-> out.result.eligible,
                         reason |-> out.result.reason,
                         timestamp |-> now]) @@ eligibilityCache
                ELSE eligibilityCache
          /\ lastQuery' = [lastQuery EXCEPT ![<<tokenMint, walletAddress>>] =
                [kind |-> "query", ok |-> (response.kind = "http" /\ response.ok),
                 result |-> out.result, doneAt |-> now]]
    /\ UNCHANGED <<now, ticks, cleared, lastCall>>
    /\ UNCHANGED <<calcVars, buildVars, drawVars, restVars>>

\* eligibilityCache.clear()
ClearEligibilityCache ==
    /\ eligibilityCache' = <<>>
    /\ cleared' = [p \in Pairs |-> TRUE]
    /\ lastQuery' = [p \in Pairs |-> None]
    /\ UNCHANGED <<now, ticks, inflight, lastCall>>
    /\ UNCHANGED <<calcVars, buildVars, drawVars, restVars>>

\* the clock moves on, in turn by just under the TTL and by a millisecond:
\* entries are met one millisecond before their expiry and exactly at it
Tick ==
    /\ ticks < MaxTicks
    /\ now' = now + (IF now % CACHE_TTL = 0 THEN CACHE_TTL - 1 ELSE 1)
    /\ ticks' = ticks + 1
    /\ lastQuery' = [p \in Pairs |->
            IF lastQuery[p] # None /\ now' - lastQuery[p].doneAt >= CACHE_TTL
            THEN None ELSE lastQuery[p]]
    /\ UNCHANGED <<eligibilityCache, inflight, lastCall, cleared>>
    /\ UNCHANGED <<calcVars, buildVars, drawVars, restVars>>

StartCached ==
    \E w \in CacheWallets, m \in TokenMints : HasNeverSoldCached(w, m)

StartFetch ==
    \E w \in CacheWallets, m \in TokenMints : HasNeverSoldFetch(w, m)

Respond ==
    \E w \in CacheWallets, m \in TokenMints, response \in Responses :
        HasNeverSoldRespond(w, m, response)

NextCache ==
    \/ StartCached
    \/ StartFetch
    \/ Respond
    \/ ClearEligibilityCache
    \/ Tick

SpecCache == InitCache /\ [][NextCache]_vars

-----------------------------------------------------------------------------
(* batchCheckSells: the wallets are checked in batches of BATCH_SIZE, the  *)
(* checks of a batch run concurrently and their responses arrive in any    *)
(* order.                                                                  *)

BATCH_SIZE == 10

MaxWallets == 11

\* the token the wallets are checked for
Mint == <<77>>

\* "A", "B", "C", ...
WalletName(k) == <<64 + k>>

\* a wallet that is never checked, the other side of an incoming transfer
SomeoneElse == <<90>>

\* the input lists: pairwise different wallets of every length, and two
\* wallets in turn, a few of them and a full batch or more
WalletLists ==
    {[k \in 1..n |-> WalletName(k)] : n \in 0..MaxWallets}
        \cup {[k \in 1..n |-> WalletName(((k - 1) % 2) + 1)] :
                 n \in {2, 3} \cup BATCH_SIZE..MaxWallets}

\* the histories the provider can hold for a wallet
HistoryShapes ==
    {"throw", "status", "empty", "plain", "sale", "zero", "otherMint", "incoming", "lateSale"}

\* what the provider answers for the wallets after the first one
RestShapes == {"status", "empty", "sale"}

\* the response to the history request of a wallet whose history has the shape
HistoryOf(shape, walletAddress, tokenMint) ==
    LET sale == [mint |-> tokenMint, fromUserAccount |-> walletAddress, tokenAmount |-> 5]
        zero == [mint |-> tokenMint, fromUserAccount |-> walletAddress, tokenAmount |-> 0]
        other == [mint |-> OtherMint, fromUserAccount |-> walletAddress, tokenAmount |-> 5]
        incoming == [mint |-> tokenMint, fromUserAccount |-> SomeoneElse, tokenAmount |-> 5]
        plain == [signature |-> <<83>>]
        tx(transfers) == [signature |-> <<83>>, tokenTransfers |-> transfers]
        ok(body) == [kind |-> "http", ok |-> TRUE, body |-> body]
    IN CASE shape = "throw" -> [kind |-> "throw"]
         [] shape = "status" -> [kind |-> "http", ok |-> FALSE, status |-> 429]
         [] shape = "empty" -> ok(<<>>)
         [] shape = "plain" -> ok(<<plain>>)
         [] shape = "sale" -> ok(<<tx(<<sale>>)>>)
         [] shape = "zero" -> ok(<<tx(<<zero>>)>>)
         [] shape = "otherMint" -> ok(<<tx(<<other>>)>>)
         [] shape = "incoming" -> ok(<<tx(<<incoming>>)>>)
         [] shape = "lateSale" -> ok(<<plain, tx(<<incoming, zero, sale>>)>>)

ShapeOf(walletAddress) ==
    IF walletAddress = WalletName(1) THEN history.first ELSE history.rest

\* the response the request for the wallet gets
ResponseFor(walletAddress) == HistoryOf(ShapeOf(walletAddress), walletAddress, Mint)

BatchEndShort(i, n) == Min(i + BATCH_SIZE - 1, n)

BatchEndWide(i, n) == Min(i + BATCH_SIZE + 1, n)

\* wallets.slice(i, i + BATCH_SIZE) ends at the smaller of i + BATCH_SIZE and the length
BatchEnd(i, n) == Min(i + BATCH_SIZE, n)

\* the indices (from 1) of wallets.slice(i, i + BATCH_SIZE)
BatchIndices == (batchIndex + 1)..BatchEnd(batchIndex, Len(wallets))

\* for (const { wallet, result } of batchResults) results.set(wallet, result)
RECURSIVE StoreResults(_, _, _)
StoreResults(map, from, to) ==
    IF from > to THEN map
    ELSE StoreResults((wallets[from] :> batchResults[from]) @@ map, from + 1, to)

ProcessedByFullBatch(p, batchLength) == p + BATCH_SIZE

\* processed += batch.length
Processed(p, batchLength) == p + batchLength

MoreBatchesAlways(i, n) == TRUE

\* i + BATCH_SIZE < wallets.length: another batch follows
MoreBatches(i, n) == i + BATCH_SIZE < n

InitBatch ==
    /\ IdleCalc /\ IdleBuild /\ IdleDraw /\ IdleCache /\ IdleFetch /\ IdlePost
    /\ onProgress \in BOOLEAN
    /\ wallets \in WalletLists
    /\ history \in [first : HistoryShapes, rest : RestShapes]
    /\ batchIndex = 0
    /\ phase = "loop"
    /\ batchResults = <<>>
    /\ results = <<>>
    /\ processed = 0
    /\ progress = <<>>
    /\ started = {}
    /\ completed = {}
    /\ fetched = {}

\* i < wallets.length: the batch is sliced and hasNeverSold is called for each
\* of its wallets; every call runs up to its first await, so a call that finds
\* a fresh cache entry resolves with it and the others send their request
StartBatch ==
    /\ phase = "loop"
    /\ batchIndex < Len(wallets)
    /\ LET hits == {k \in BatchIndices : CacheHit(Mint, wallets[k])}
       IN /\ batchResults' =
                [k \in hits |->
                    LET cached == eligibilityCache[CacheKey(Mint, wallets[k])]
                    IN [eligible |-> cached.eligible, reason |-> cached.reason]]
          /\ completed' = completed \cup hits
          /\ fetched' = fetched \cup (BatchIndices \ hits)
    /\ started' = started \cup BatchIndices
    /\ phase' = "await"
    /\ UNCHANGED <<wallets, history, batchIndex, results, processed, progress, onProgress>>
    /\ UNCHANGED <<calcVars, buildVars, drawVars, cacheVars, fetchVars, postVars>>

\* the response to one of the requests arrives: the rest of that hasNeverSold runs
CheckRespond(k) ==
    /\ phase = "await"
    /\ k \in started \ completed
    /\ LET out == Outcome(ResponseFor(wallets[k]), Mint, wallets[k])
       IN /\ eligibilityCache' =
                IF out.cache
                THEN (CacheKey(Mint, wallets[k]) :>
                        [eligible |-> out.result.eligible,
                         reason |-> out.result.reason,
                         timestamp |-> now]) @@ eligibilityCache
                ELSE eligibilityCache
          /\ batchResults' = (k :> out.result) @@ batchResults
    /\ completed' = completed \cup {k}
    /\ UNCHANGED <<wallets, history, batchIndex, phase, results, processed, progress,
                   started, fetched, onProgress>>
    /\ UNCHANGED <<now, ticks, inflight, lastCall, lastQuery, cleared>>
    /\ UNCHANGED <<calcVars, buildVars, drawVars, fetchVars, postVars>>

\* Promise.all resolves once every check of the batch has: the results are
\* stored, processed grows, onProgress is called, and a delay follows if
\* wallets remain
FinishBatch ==
    /\ phase = "await"
    /\ BatchIndices \subseteq completed
    /\ results' = StoreResults(results, batchIndex + 1, BatchEnd(batchIndex, Len(wallets)))
    /\ processed' = Processed(processed, Cardinality(BatchIndices))
    /\ progress' = IF onProgress THEN Append(progress, <<processed', Len(wallets)>>)
                   ELSE progress
    /\ batchResults' = <<>>
    /\ IF MoreBatches(batchIndex, Len(wallets))
       THEN phase' = "sleep" /\ batchIndex' = batchIndex
       ELSE phase' = "loop" /\ batchIndex' = batchIndex + BATCH_SIZE
    /\ UNCHANGED <<wallets, history, started, completed, fetched, onProgress>>
    /\ UNCHANGED <<calcVars, buildVars, drawVars, cacheVars, fetchVars, postVars>>

\* setTimeout(resolve, 100) fires; i += BATCH_SIZE
Wake ==
    /\ phase = "sleep"
    /\ now' = SleepUntil(now, 100)
    /\ batchIndex' = batchIndex + BATCH_SIZE
    /\ phase' = "loop"
    /\ UNCHANGED <<wallets, history, batchResults, results, processed, progress,
                   started, completed, fetched, onProgress>>
    /\ UNCHANGED <<eligibilityCache, ticks, inflight, lastCall, lastQuery, cleared>>
    /\ UNCHANGED <<calcVars, buildVars, drawVars, fetchVars, postVars>>

\* i >= wallets.length: return results
ReturnResults ==
    /\ phase = "loop"
    /\ batchIndex >= Len(wallets)
    /\ phase' = "returned"
    /\ UNCHANGED <<wallets, history, batchIndex, batchResults, results, processed,
                   progress, started, completed, fetched, onProgress>>
    /\ UNCHANGED <<calcVars, buildVars, drawVars, cacheVars, fetchVars, postVars>>

CheckResponds == \E k \in 1..Len(wallets) : CheckRespond(k)

NextBatch ==
    \/ StartBatch
    \/ CheckResponds
    \/ FinishBatch
    \/ Wake
    \/ ReturnResults

SpecBatch == InitBatch /\ [][NextBatch]_vars

-----------------------------------------------------------------------------
(* Holder listing: fetchAllHolders pages the birdeye listing by offset,    *)
(* fetchAllHoldersHelius pages the helius listing by cursor.               *)

EXCLUDED_ADDRESSES ==
    {
     \* 675kPX9MHTjS2zt1qfr1NYHuzeLXfQM9H24wFSUt1Mp8
     <<54, 55, 53, 107, 80, 88, 57, 77, 72, 84, 106, 83, 50, 122, 116, 49, 113, 102, 114,
       49, 78, 89, 72, 117, 122, 101, 76, 88, 102, 81, 77, 57, 72, 50, 52, 119, 70, 83, 85,
       116, 49, 77, 112, 56>>,
     \* CAMMCzo5YL8w4VFF8KVHrK22GGUsp5VTaW7grrKgrWqK
     <<67, 65, 77, 77, 67, 122, 111, 53, 89, 76, 56, 119, 52, 86, 70, 70, 56, 75, 86, 72,
       114, 75, 50, 50, 71, 71, 85, 115, 112, 53, 86, 84, 97, 87, 55, 103, 114, 114, 75,
       103, 114, 87, 113, 75>>,
     \* whirLbMiicVdio4qvUfM5KAg6Ct8VwpYzGff3uctyCc
     <<119, 104, 105, 114, 76, 98, 77, 105, 105, 99, 86, 100, 105, 111, 52, 113, 118, 85,
       102, 77, 53, 75, 65, 103, 54, 67, 116, 56, 86, 119, 112, 89, 122, 71, 102, 102, 51,
       117, 99, 116, 121, 67, 99>>,
     \* 6EF8rrecthR5Dkzon8Nwu78hRvfCKubJ14M5uBEwF6P
     <<54, 69, 70, 56, 114, 114, 101, 99, 116, 104, 82, 53, 68, 107, 122, 111, 110, 56, 78,
       119, 117, 55, 56, 104, 82, 118, 102, 67, 75, 117, 98, 74, 49, 52, 77, 53, 117, 66,
       69, 119, 70, 54, 80>>,
     \* CebN5WGQ4jvEPvsVU4EoHEpgzq1VV7AbicfhtW4xC9iM
     <<67, 101, 98, 78, 53, 87, 71, 81, 52, 106, 118, 69, 80, 118, 115, 86, 85, 52, 69,
       111, 72, 69, 112, 103, 122, 113, 49, 86, 86, 55, 65, 98, 105, 99, 102, 104, 116, 87,
       52, 120, 67, 57, 105, 77>>,
     \* JUP6LkbZbjS1jKKwapdHNy74zcZ3tLUZoi5QNyVTaV4
     <<74, 85, 80, 54, 76, 107, 98, 90, 98, 106, 83, 49, 106, 75, 75, 119, 97, 112, 100,
       72, 78, 121, 55, 52, 122, 99, 90, 51, 116, 76, 85, 90, 111, 105, 53, 81, 78, 121,
       86, 84, 97, 86, 52>>,
     \* TokenkegQfeZyiNwAJbNbGKPFXCWuBvf9Ss623VQ5DA
     <<84, 111, 107, 101, 110, 107, 101, 103, 81, 102, 101, 90, 121, 105, 78, 119, 65, 74,
       98, 78, 98, 71, 75, 80, 70, 88, 67, 87, 117, 66, 118, 102, 57, 83, 115, 54, 50, 51,
       86, 81, 53, 68, 65>>,
     \* ATokenGPvbdGVxr1b2hvZbsiqW5xWH25efTNsLJA8knL
     <<65, 84, 111, 107, 101, 110, 71, 80, 118, 98, 100, 71, 86, 120, 114, 49, 98, 50, 104,
       118, 90, 98, 115, 105, 113, 87, 53, 120, 87, 72, 50, 53, 101, 102, 84, 78, 115, 76,
       74, 65, 56, 107, 110, 76>>,
     \* 36xH1EnLfUgenU8BBQN61Gn2JCE2gceBJDsGmSAzks3L
     <<51, 54, 120, 72, 49, 69, 110, 76, 102, 85, 103, 101, 110, 85, 56, 66, 66, 81, 78,
       54, 49, 71, 110, 50, 74, 67, 69, 50, 103, 99, 101, 66, 74, 68, 115, 71, 109, 83, 65,
       122, 107, 115, 51, 76>>,
     \* 5ZZZ6T7vimeuPbE2EfM9BrChLpzRhw2jsJzWFrsQCxcp
     <<53, 90, 90, 90, 54, 84, 55, 118, 105, 109, 101, 117, 80, 98, 69, 50, 69, 102, 77,
       57, 66, 114, 67, 104, 76, 112, 122, 82, 104, 119, 50, 106, 115, 74, 122, 87, 70,
       114, 115, 81, 67, 120, 99, 112>>
    }

\* EXCLUDED_ADDRESSES.has(address)
isExcludedAddress(address) == address \in EXCLUDED_ADDRESSES

\* Birdeye page size
limit == 100

\* maxHolders: number = 10000
DEFAULT_MAX_HOLDERS == 10000

MaxPages == 3

\* the holders at the head of the listing that hold 10,000 tokens or more
QualifyingHolders == 13

\* the Raydium AMM, which the listing reports as the second holder
ExcludedHolder == CHOOSE a \in EXCLUDED_ADDRESSES : a[1] = 54 /\ a[2] = 55

\* the token's holders as the providers list them: "A", an excluded address,
\* "C", "D", ... with one or two tickets, then wallets below the threshold
HolderOwner(idx) ==
    IF idx = 2 THEN ExcludedHolder
    ELSE IF idx <= QualifyingHolders THEN WalletName(idx)
    ELSE <<102, idx>>

HolderBalance(idx) ==
    IF idx > QualifyingHolders THEN 5000
    ELSE IF idx % 2 = 1 THEN 15000 ELSE 25000

\* data.data.items of the page at an offset, with len items
BirdeyeItems(at, len) ==
    [j \in 1..len |-> [owner |-> HolderOwner(at + j), ui_amount |-> HolderBalance(at + j)]]

\* the listing holds limit * MaxPages holders at most
ServerLengths(at) == {len \in {0, 3, limit - 1, limit} : at + len <= limit * MaxPages}

\* what the birdeye page request at an offset can bring
BirdeyeResponses(at) ==
    {[kind |-> "throw"],
     [kind |-> "http", ok |-> FALSE, status |-> 404],
     [kind |-> "http", ok |-> FALSE, status |-> 500],
     [kind |-> "http", ok |-> TRUE, data |-> [success |-> FALSE]]}
        \cup {[kind |-> "http", ok |-> TRUE,
               data |-> [success |-> TRUE, items |-> BirdeyeItems(at, len)]] :
                 len \in ServerLengths(at)}

\* holders.push({ owner: item.owner, balance: item.ui_amount, percentage: 0 })
BirdeyePushed(items) ==
    [j \in 1..Len(items) |->
        [owner |-> items[j].owner, balance |-> items[j].ui_amount, percentage |-> 0]]

\* !response.ok, a thrown error, !data.success or no items: the loop breaks
BirdeyeBreaks(response) ==
    \/ response.kind = "throw"
    \/ ~response.ok
    \/ ~response.data.success
    \/ Len(response.data.items) = 0

BirdeyeHoldersAfterDiscard(list, response) ==
    IF BirdeyeBreaks(response) THEN <<>>
    ELSE list \o BirdeyePushed(response.data.items)

\* holders once the response is handled: untouched by a break, else with the
\* items of the page pushed in their order
BirdeyeHoldersAfter(list, response) ==
    IF BirdeyeBreaks(response) THEN list
    ELSE list \o BirdeyePushed(response.data.items)

NextOffsetSkipping(at) == at + 2 * limit

\* offset += limit
NextOffset(at) == at + limit

\* decimal digits of a natural number
RECURSIVE DigitsOf(_)
DigitsOf(n) == IF n < 10 THEN <<48 + n>> ELSE Append(DigitsOf(n \div 10), 48 + (n % 10))

RECURSIVE ParseDigitsFrom(_, _)
ParseDigitsFrom(acc, text) ==
    IF text = <<>> THEN acc
    ELSE ParseDigitsFrom(10 * acc + (Head(text) - 48), Tail(text))

\* the raw amount of a whole number of tokens with 9 decimals
AmountText(tokens) == DigitsOf(tokens) \o [j \in 1..9 |-> 48]

\* Number(acc.amount) / Math.pow(10, acc.decimals || 9), for amounts that
\* are a whole number of tokens
AmountToBalance(amount, decimals) ==
    LET d == IF decimals = 0 THEN 9 ELSE decimals
    IN ParseDigitsFrom(0, SubSeq(amount, 1, Len(amount) - d))

\* the page a cursor stands for
CursorPage(c) == IF c = Undefined THEN 1 ELSE c[2]

\* token_accounts of a page: two holders with a zero-balance account between
HeliusAccounts(page) ==
    <<[owner |-> HolderOwner(2 * page - 1),
       amount |-> AmountText(HolderBalance(2 * page - 1)), decimals |-> 9],
      [owner |-> <<122>>, amount |-> <<48>>, decimals |-> 9],
      [owner |-> HolderOwner(2 * page),
       amount |-> AmountText(HolderBalance(2 * page)), decimals |-> 9]>>

\* token_accounts of a page of one account without balance
ZeroBalanceAccounts == <<[owner |-> <<122>>, amount |-> <<48>>, decimals |-> 9]>>

\* what the helius page request for a page can bring
HeliusResponses(page) ==
    {[kind |-> "throw"],
     [kind |-> "http", ok |-> FALSE, status |-> 500],
     [kind |-> "http", ok |-> TRUE, data |-> [error |-> TRUE]]}
        \cup {[kind |-> "http", ok |-> TRUE,
               data |-> [error |-> FALSE, token_accounts |-> accounts, cursor |-> c]] :
                 accounts \in {<<>>, HeliusAccounts(page), ZeroBalanceAccounts},
                 c \in {Undefined} \cup (IF page < MaxPages THEN {<<112, page + 1>>} ELSE {})}

\* if (!acc.amount || acc.amount === '0') continue; else push owner and balance
RECURSIVE HeliusPushed(_)
HeliusPushed(accounts) ==
    IF accounts = <<>> THEN <<>>
    ELSE LET acc == Head(accounts)
         IN (IF acc.amount = <<>> \/ acc.amount = <<48>> THEN <<>>
             ELSE <<[owner |-> acc.owner,
                     balance |-> AmountToBalance(acc.amount, acc.decimals)]>>)
               \o HeliusPushed(Tail(accounts))

\* limit: 1000, the page size asked of helius
heliusLimit == 1000

HeliusBreaksOnShortPage(response) ==
    \/ response.kind = "throw"
    \/ ~response.ok
    \/ response.data.error
    \/ Len(response.data.token_accounts) < heliusLimit

\* !response.ok, a thrown error, data.error or no accounts: the loop breaks
HeliusBreaks(response) ==
    \/ response.kind = "throw"
    \/ ~response.ok
    \/ response.data.error
    \/ Len(response.data.token_accounts) = 0

RECURSIVE InsertByBalance(_, _)
InsertByBalance(sorted, h) ==
    IF sorted = <<>> THEN <<h>>
    ELSE IF h.balance > Head(sorted).balance THEN <<h>> \o sorted
    ELSE <<Head(sorted)>> \o InsertByBalance(Tail(sorted), h)

RECURSIVE SortByBalanceFrom(_, _)
SortByBalanceFrom(sorted, rest) ==
    IF rest = <<>> THEN sorted
    ELSE SortByBalanceFrom(InsertByBalance(sorted, Head(rest)), Tail(rest))

\* holders.sort((a, b) => b.balance - a.balance): descending, stable
SortByBalance(list) == SortByBalanceFrom(<<>>, list)

\* history: what is logged of a response; of a page of holders its length and
\* cursor, the accounts being those the listing holds at that place
Logged(response) ==
    IF response.kind = "throw" \/ ~response.ok THEN response
    ELSE IF "items" \in DOMAIN response.data
    THEN [kind |-> "page", ok |-> TRUE, len |-> Len(response.data.items)]
    ELSE IF "token_accounts" \in DOMAIN response.data
    THEN [kind |-> "page", ok |-> TRUE, len |-> Len(response.data.token_accounts),
          cursor |-> response.data.cursor]
    ELSE [kind |-> "refused", ok |-> TRUE]

\* the listing has returned to its caller: its locals are gone
FetchFrameGone ==
    /\ provider' = "none"
    /\ maxHolders' = 0
    /\ offset' = 0
    /\ cursor' = Undefined
    /\ fetchHolders' = <<>>
    /\ fetchPhase' = "idle"
    /\ pageLog' = pageLog

\* fetchAllHolders is called: holders = [], offset = 0, and the loop test
BirdeyeCall(max) ==
    /\ provider' = "birdeye"
    /\ maxHolders' = max
    /\ offset' = 0
    /\ cursor' = Undefined
    /\ fetchHolders' = <<>>
    /\ pageLog' = pageLog
    /\ fetchPhase' = IF 0 < max THEN "request" ELSE "returned"

\* fetchAllHoldersHelius is called: holders = [], no cursor, and the loop test
HeliusCall(max) ==
    /\ provider' = "helius"
    /\ maxHolders' = max
    /\ offset' = 0
    /\ cursor' = Undefined
    /\ fetchHolders' = <<>>
    /\ pageLog' = pageLog
    /\ fetchPhase' = IF 0 < max THEN "request" ELSE "returned"

\* the response to the birdeye page request arrives
BirdeyeRespond(response) ==
    /\ provider = "birdeye"
    /\ fetchPhase = "request"
    /\ pageLog' = Append(pageLog,
            [provider |-> "birdeye", at |-> offset, response |-> Logged(response),
             done |-> now])
    /\ fetchHolders' = BirdeyeHoldersAfter(fetchHolders, response)
    /\ IF BirdeyeBreaks(response)
       THEN fetchPhase' = "returned" /\ offset' = offset
       ELSE IF Len(response.data.items) < limit
       THEN fetchPhase' = "returned" /\ offset' = offset
       ELSE fetchPhase' = "sleep" /\ offset' = NextOffset(offset)
    /\ UNCHANGED <<provider, maxHolders, cursor>>
    /\ UNCHANGED <<calcVars, buildVars, drawVars, cacheVars, batchVars, postVars>>

\* the 50 ms delay is over: while (offset < maxHolders)
BirdeyeWake ==
    /\ provider = "birdeye"
    /\ fetchPhase = "sleep"
    /\ now' = SleepUntil(now, 50)
    /\ fetchPhase' = IF offset < maxHolders THEN "request" ELSE "returned"
    /\ UNCHANGED <<provider, maxHolders, offset, cursor, fetchHolders, pageLog>>
    /\ UNCHANGED <<eligibilityCache, ticks, inflight, lastCall, lastQuery, cleared>>
    /\ UNCHANGED <<calcVars, buildVars, drawVars, batchVars, postVars>>

\* the response to the helius page request arrives; the list is sorted when
\* the loop is left
HeliusRespond(response) ==
    /\ provider = "helius"
    /\ fetchPhase = "request"
    /\ pageLog' = Append(pageLog,
            [provider |-> "helius", at |-> CursorPage(cursor),
             response |-> Logged(response), done |-> now])
    /\ IF HeliusBreaks(response)
       THEN /\ fetchPhase' = "returned"
            /\ fetchHolders' = SortByBalance(fetchHolders)
            /\ cursor' = cursor
       ELSE LET pushed == fetchHolders \o HeliusPushed(response.data.token_accounts)
            IN /\ cursor' = response.data.cursor
               /\ IF response.data.cursor = Undefined
                  THEN fetchPhase' = "returned" /\ fetchHolders' = SortByBalance(pushed)
                  ELSE fetchPhase' = "sleep" /\ fetchHolders' = pushed
    /\ UNCHANGED <<provider, maxHolders, offset>>
    /\ UNCHANGED <<calcVars, buildVars, drawVars, cacheVars, batchVars, postVars>>

\* the 100 ms delay is over: while (holders.length < maxHolders)
HeliusWake ==
    /\ provider = "helius"
    /\ fetchPhase = "sleep"
    /\ now' = SleepUntil(now, 100)
    /\ IF Len(fetchHolders) < maxHolders
       THEN fetchPhase' = "request" /\ fetchHolders' = fetchHolders
       ELSE fetchPhase' = "returned" /\ fetchHolders' = SortByBalance(fetchHolders)
    /\ UNCHANGED <<provider, maxHolders, offset, cursor, pageLog>>
    /\ UNCHANGED <<eligibilityCache, ticks, inflight, lastCall, lastQuery, cleared>>
    /\ UNCHANGED <<calcVars, buildVars, drawVars, batchVars, postVars>>

BirdeyeResponds == \E response \in BirdeyeResponses(offset) : BirdeyeRespond(response)

HeliusResponds ==
    \E response \in HeliusResponses(CursorPage(cursor)) : HeliusRespond(response)

\* the values of maxHolders the listings are called with
BirdeyeMax == {limit * MaxPages - 50, limit * MaxPages, DEFAULT_MAX_HOLDERS}

HeliusMax == {2, 3, DEFAULT_MAX_HOLDERS}

InitPaginate ==
    /\ IdleCalc /\ IdleBuild /\ IdleDraw /\ IdleCache /\ IdleBatch /\ IdleFetch /\ IdlePost

CallFetchAllHolders ==
    /\ fetchPhase = "idle"
    /\ \E max \in BirdeyeMax : BirdeyeCall(max)
    /\ UNCHANGED <<calcVars, buildVars, drawVars, cacheVars, batchVars, postVars>>

CallFetchAllHoldersHelius ==
    /\ fetchPhase = "idle"
    /\ \E max \in HeliusMax : HeliusCall(max)
    /\ UNCHANGED <<calcVars, buildVars, drawVars, cacheVars, batchVars, postVars>>

NextPaginate ==
    \/ CallFetchAllHolders
    \/ CallFetchAllHoldersHelius
    \/ BirdeyeResponds
    \/ BirdeyeWake
    \/ HeliusResponds
    \/ HeliusWake

SpecPaginate == InitPaginate /\ [][NextPaginate]_vars

-----------------------------------------------------------------------------
(* The draw request: POST lists the holders, birdeye first and helius when *)
(* that brought none, drops excluded addresses and small balances, checks  *)
(* the sell history of the rest, builds the entries and picks a winner.    *)

\* values of randomBytes[0]
RandomValues == {0, 1, 2, 3, 2147483647}

\* pickWinner with randomBytes[0] = random
pickWinner(list, random) ==
    LET eligible == EligibleOf(list)
    IN IF Len(eligible) = 0 THEN Null
       ELSE LET totalTickets == SumTickets(eligible)
                winningTicket == (random % totalTickets) + 1
                w == FindWinner(eligible, winningTicket)
            IN IF w = 0 THEN Null
               ELSE [kind |-> "result",
                     winner |-> eligible[w],
                     totalTickets |-> totalTickets,
                     totalEligible |-> Len(eligible),
                     winningTicket |-> winningTicket]

KeepsExcluded(h) == ~(calculateTickets(h.balance) < 1)

\* the filter of allHolders: not an excluded address, at least one ticket
KeepsHolder(h) == ~isExcludedAddress(h.owner) /\ ~(calculateTickets(h.balance) < 1)

NeedsFallbackNever(list) == FALSE

\* allHolders.length === 0
NeedsFallback(list) == Len(list) = 0

NoHoldersNever(list) == FALSE

\* allHolders.length === 0, after both listings
NoHolders(list) == Len(list) = 0

BatchCheckPending(at) == at \in {"await", "returned"}

\* await batchCheckSells(...): the handler goes on once the call has returned
BatchCheckSettled(at) == at = "returned"

\* entries.slice(0, 100)
Preview(list) == SubSeq(list, 1, Min(100, Len(list)))

\* what the history provider answers in a draw request
PostHistories ==
    {[first |-> "empty", rest |-> "empty"],
     [first |-> "sale", rest |-> "empty"],
     [first |-> "throw", rest |-> "sale"]}

InitPipeline ==
    /\ IdleCalc /\ IdleBuild /\ IdleDraw /\ IdleCache /\ IdleFetch
    /\ wallets = <<>>
    /\ history \in PostHistories
    /\ batchIndex = 0
    /\ phase = "idle"
    /\ batchResults = <<>>
    /\ results = <<>>
    /\ processed = 0
    /\ progress = <<>>
    /\ started = {}
    /\ completed = {}
    /\ fetched = {}
    /\ onProgress = FALSE
    /\ postPhase = "start"
    /\ birdeyeKey \in BOOLEAN
    /\ action \in {Undefined, <<112, 105, 99, 107>>}
    /\ allHolders = <<>>
    /\ usedSource = Undefined
    /\ eligibleHolders = <<>>
    /\ postResponse = NotCalled

\* NextResponse.json({ error }, { status })
ErrorResponse(status, error) == [status |-> status, error |-> error]

\* the handler answers and ends
Responds(answer) ==
    /\ postResponse' = answer
    /\ postPhase' = "done"

\* allHolders is filtered and batchCheckSells is called on the owners kept,
\* without an onProgress callback
FilterAndCheck(list) ==
    LET kept == SelectSeq(list, KeepsHolder)
    IN /\ eligibleHolders' = kept
       /\ wallets' = [j \in 1..Len(kept) |-> kept[j].owner]
       /\ batchIndex' = 0
       /\ phase' = "loop"
       /\ batchResults' = <<>>
       /\ results' = <<>>
       /\ processed' = 0
       /\ progress' = <<>>
       /\ started' = {}
       /\ completed' = {}
       /\ fetched' = {}
       /\ onProgress' = FALSE
       /\ postPhase' = "check"
       /\ UNCHANGED <<history, postResponse>>

\* the handler runs up to the first holder listing: the body and the keys are
\* read, the token info is looked up at birdeye and then at helius, and the
\* listing of birdeye, or of helius when there is no birdeye key, is called
PostBegin ==
    /\ postPhase = "start"
    /\ \E mintGiven \in BOOLEAN, heliusKey \in BOOLEAN,
          birdeyeInfo \in BOOLEAN, heliusInfo \in BOOLEAN :
          IF ~mintGiven \/ ~heliusKey \/ ~((birdeyeKey /\ birdeyeInfo) \/ heliusInfo)
          THEN /\ Responds(
                    IF ~mintGiven THEN ErrorResponse(400, "Token mint address required")
                    ELSE IF ~heliusKey
                    THEN ErrorResponse(500, "HELIUS_API_KEY not configured")
                    ELSE ErrorResponse(400, "Could not fetch token info"))
               /\ UNCHANGED <<usedSource, fetchVars>>
          ELSE /\ IF birdeyeKey
                  THEN /\ BirdeyeCall(DEFAULT_MAX_HOLDERS)
                       /\ usedSource' = "birdeye"
                       /\ postPhase' = "birdeye"
                  ELSE /\ HeliusCall(DEFAULT_MAX_HOLDERS)
                       /\ usedSource' = "helius"
                       /\ postPhase' = "helius"
               /\ UNCHANGED postResponse
    /\ UNCHANGED <<birdeyeKey, action, allHolders, eligibleHolders>>
    /\ UNCHANGED <<calcVars, buildVars, drawVars, cacheVars, batchVars>>

\* fetchAllHolders has returned: its holders become allHolders; when there
\* are none the helius listing is called, else the holders are filtered and
\* checked
PostAfterBirdeye ==
    /\ postPhase = "birdeye"
    /\ provider = "birdeye"
    /\ fetchPhase = "returned"
    /\ LET birdeyeHolders ==
              [j \in 1..Len(fetchHolders) |->
                  [owner |-> fetchHolders[j].owner, balance |-> fetchHolders[j].balance]]
       IN /\ allHolders' = birdeyeHolders
          /\ IF NeedsFallback(birdeyeHolders)
             THEN /\ usedSource' = "helius"
                  /\ HeliusCall(DEFAULT_MAX_HOLDERS)
                  /\ postPhase' = "helius"
                  /\ UNCHANGED <<eligibleHolders, postResponse, batchVars>>
             ELSE /\ FilterAndCheck(birdeyeHolders)
                  /\ FetchFrameGone
                  /\ UNCHANGED usedSource
    /\ UNCHANGED <<birdeyeKey, action>>
    /\ UNCHANGED <<calcVars, buildVars, drawVars, cacheVars>>

\* fetchAllHoldersHelius has returned: without holders the handler answers
\* 'No holders found', else the holders are filtered and checked
PostAfterHelius ==
    /\ postPhase = "helius"
    /\ provider = "helius"
    /\ fetchPhase = "returned"
    /\ allHolders' = fetchHolders
    /\ IF NoHolders(fetchHolders)
       THEN /\ Responds(ErrorResponse(400, "No holders found"))
            /\ UNCHANGED <<eligibleHolders, batchVars>>
       ELSE FilterAndCheck(fetchHolders)
    /\ FetchFrameGone
    /\ UNCHANGED <<birdeyeKey, action, usedSource>>
    /\ UNCHANGED <<calcVars, buildVars, drawVars, cacheVars>>

\* batchCheckSells has returned: the entries are built, a winner is picked
\* when action is 'pick', and the handler answers with the statistics, the
\* first hundred entries and the result
PostFinish ==
    /\ postPhase = "check"
    /\ BatchCheckSettled(phase)
    /\ \E random \in RandomValues :
          LET list == buildLotteryEntries(eligibleHolders, results)
              picked == IF action = <<112, 105, 99, 107>> THEN pickWinner(list, random)
                        ELSE Null
              eligibleEntries == SelectSeqFn(list, [e \in Range(list) |-> e.eligible])
          IN Responds([status |-> 200,
                       stats |-> [totalHolders |-> Len(allHolders),
                                  holdersWithMinBalance |-> Len(eligibleHolders),
                                  eligibleHolders |-> Len(eligibleEntries),
                                  disqualified |-> Len(list) - Len(eligibleEntries),
                                  totalTickets |-> SumTickets(eligibleEntries),
                                  source |-> usedSource],
                       entries |-> Preview(list),
                       result |-> picked])
    /\ UNCHANGED <<birdeyeKey, action, allHolders, usedSource, eligibleHolders>>
    /\ UNCHANGED <<calcVars, buildVars, drawVars, cacheVars, batchVars, fetchVars>>

NextPipeline ==
    \/ PostBegin
    \/ BirdeyeResponds
    \/ BirdeyeWake
    \/ PostAfterBirdeye
    \/ HeliusResponds
    \/ HeliusWake
    \/ PostAfterHelius
    \/ StartBatch
    \/ CheckResponds
    \/ FinishBatch
    \/ Wake
    \/ ReturnResults
    \/ PostFinish

SpecPipeline == InitPipeline /\ [][NextPipeline]_vars

-----------------------------------------------------------------------------
(* Selection on a caller's list: pickWinner, pickWinnerVerifiable and      *)
(* createSnapshot called on the same entries, and verifyResult on the      *)
(* snapshot made of them.                                                  *)

\* "B", "aB", "1b": upper case, lower case and digits
SelectWallets == {<<66>>, <<97, 66>>, <<49, 98>>}

\* entries a caller may pass: zero-ticket and ineligible ones included
SelectEntries ==
    {[wallet |-> w, balance |-> t * TOKENS_PER_TICKET, tickets |-> t,
      eligible |-> e, reason |-> Undefined] :
        w \in SelectWallets, t \in {0, 1, 2}, e \in BOOLEAN}

\* "5", "0xFF" and "g5", which BigInt rejects
SelectSeeds == {<<53>>, <<48, 120, 70, 70>>, <<103, 53>>}

\* "M", "N"
SnapshotMints == {<<77>>, <<78>>}

InitSelect ==
    /\ IdleCalc /\ IdleBuild /\ IdleCache /\ IdleRest
    /\ entries \in SeqsUpTo(SelectEntries, MaxEntries)
    /\ blockHash \in SelectSeeds
    /\ snapshot = NotCalled
    /\ result = NotCalled
    /\ verification = NotCalled
    /\ randomResult = NotCalled

PickWinner ==
    /\ randomResult = NotCalled
    /\ \E random \in RandomValues :
          randomResult' = [kind |-> "picked", value |-> pickWinner(entries, random)]
    /\ entries' = ArgumentAfterCall(entries)
    /\ UNCHANGED <<blockHash, snapshot, result, verification, calcVars, buildVars,
                   cacheVars, restVars>>

\* createSnapshot(entries, tokenMint); the argument is kept next to the value
CreateSnapshotFor ==
    /\ snapshot = NotCalled
    /\ \E tokenMint \in SnapshotMints :
          snapshot' = [kind |-> "snapshot", tokenMint |-> tokenMint,
                       value |-> createSnapshot(entries, tokenMint)]
    /\ entries' = ArgumentAfterCall(entries)
    /\ UNCHANGED <<blockHash, result, verification, randomResult, calcVars,
                   buildVars, cacheVars, restVars>>

NextSelect ==
    \/ PickWinner
    \/ PickWinnerVerifiable
    \/ CreateSnapshotFor
    \/ VerifyResult

SpecSelect == InitSelect /\ [][NextSelect]_vars

-----------------------------------------------------------------------------
(* Properties of the verifiable draw *)

Picked   == result.kind = "picked"
Drawn    == Picked /\ result.value.kind = "result"
Verified == verification.kind = "verified"
Checked  == Verified /\ verification.value.kind = "verification"
Snapped  == snapshot.kind = "snapshot"

\* the list the recorded draw was made on
DrawnFrom == IF result.from = "snapshot" THEN snapshot.value.entries ELSE entries

\* C1: verifyResult on the snapshot of the entries, with the seed of the draw
\* and the wallet of the winner pickWinnerVerifiable returned, is valid, and
\* both report the same winningTicket.
C1_VerifyAcceptsDrawnWinner ==
    (Drawn /\ Verified /\ verification.claimedWinner = result.value.winner.wallet)
        => /\ verification.value.kind = "verification"
           /\ verification.value.valid
           /\ verification.value.calculatedWinner = result.value.winner.wallet
           /\ verification.value.winningTicket = result.value.winningTicket

C1_Witness ==
    /\ Drawn /\ Checked
    /\ result.from = "snapshot"
    /\ verification.claimedWinner = result.value.winner.wallet
    /\ verification.value.valid
    /\ Len(snapshot.value.entries) >= 2
    /\ result.value.winner.wallet # snapshot.value.entries[1].wallet
    /\ EligibleOf(entries) # snapshot.value.entries

\* C2: over the canonically ordered entries of a snapshot with total T > 0 the
\* walk maps every w in 1..T to one entry, entry i for exactly tickets_i
\* values of w, and a larger w never maps to an earlier entry.
C2_WalkPartitionsTickets ==
    (Snapped /\ snapshot.value.totalTickets > 0)
        => LET es == snapshot.value.entries
               T  == snapshot.value.totalTickets
           IN /\ \A w \in 1..T : FindWinner(es, w) \in 1..Len(es)
              /\ \A i \in 1..Len(es) :
                    Cardinality({w \in 1..T : FindWinner(es, w) = i}) = es[i].tickets
              /\ \A w \in 1..(T - 1) : FindWinner(es, w) <= FindWinner(es, w + 1)

\* A: 1 ticket, B: 2 tickets, drawn ticket 3: 1 -> A, 2 -> B, 3 -> B
C2_Witness ==
    /\ Snapped /\ Drawn
    /\ Len(snapshot.value.entries) = 2
    /\ snapshot.value.entries[1].tickets = 1
    /\ snapshot.value.entries[2].tickets = 2
    /\ FindWinner(snapshot.value.entries, 1) = 1
    /\ FindWinner(snapshot.value.entries, 2) = 2
    /\ FindWinner(snapshot.value.entries, 3) = 2
    /\ result.value.winningTicket = 3
    /\ result.value.winner = snapshot.value.entries[2]

\* every reordering of a list
Reorderings(list) ==
    LET n == Len(list)
        Bijections == {f \in [1..n -> 1..n] : \A i, j \in 1..n : i # j => f[i] # f[j]}
    IN {[i \in 1..n |-> list[f[i]]] : f \in Bijections}

\* C3: for the same seed, every permutation of the entry list yields the same
\* outcome: the same winner wallet and the same winningTicket.
C3_OrderIndependent ==
    (Picked /\ result.from = "entries")
        => \A list \in Reorderings(entries) :
             LET r == pickWinnerVerifiable(list, blockHash, result.value.blockSlot)
             IN IF result.value.kind = "result"
                THEN /\ r.kind = "result"
                     /\ r.winner.wallet = result.value.winner.wallet
                     /\ r.winningTicket = result.value.winningTicket
                ELSE r = result.value

C3_Witness ==
    /\ Drawn
    /\ result.from = "entries"
    /\ Len(EligibleOf(entries)) >= 2
    /\ SortByWallet(EligibleOf(entries)) # EligibleOf(entries)
    /\ result.value.winner.wallet # EligibleOf(entries)[1].wallet

\* C4 as claimed: no call of pickWinnerVerifiable or verifyResult evaluates
\* the modulo with a zero divisor.
C4_NoModuloByZero ==
    /\ Picked => result.value # RangeError
    /\ Verified => verification.value # RangeError

\* the remainder of the seed's value, as the weighted sum of its digits
RECURSIVE Pow16Mod(_, _)
Pow16Mod(k, m) == IF k = 0 THEN 1 % m ELSE (16 * Pow16Mod(k - 1, m)) % m

RECURSIVE DigitSumMod(_, _)
DigitSumMod(clean, m) ==
    IF clean = <<>> THEN 0
    ELSE (HexDigit(Head(clean)) * Pow16Mod(Len(clean) - 1, m)
            + DigitSumMod(Tail(clean), m)) % m

\* C5: winningTicket = (seedInt mod totalTickets) + 1 for the whole value of
\* the seed, so it lies in 1..totalTickets; a seed written with a leading 0x
\* gives the same outcome as without, and the result carries the seed
\* without the prefix.
C5_WinningTicketFullPrecision ==
    /\ Drawn =>
         LET v == result.value
         IN /\ v.winningTicket = DigitSumMod(CleanHash(blockHash), v.totalTickets) + 1
            /\ v.winningTicket >= 1 /\ v.winningTicket <= v.totalTickets
            /\ IsHexLiteral(v.blockHash)
            /\ blockHash \in {v.blockHash, <<48, 120>> \o v.blockHash}
    /\ Checked =>
         LET v == verification.value
             T == snapshot.value.totalTickets
         IN /\ v.winningTicket = DigitSumMod(CleanHash(blockHash), T) + 1
            /\ v.winningTicket >= 1 /\ v.winningTicket <= T
    /\ (Picked /\ ~StartsWith0x(blockHash)) =>
         pickWinnerVerifiable(DrawnFrom, <<48, 120>> \o blockHash, result.value.blockSlot)
            = result.value
    /\ (Verified /\ ~StartsWith0x(blockHash)) =>
         verifyResult(snapshot.value, <<48, 120>> \o blockHash, verification.claimedWinner)
            = verification.value

\* a prefixed seed of more than 64 bits whose low 64 bits give another ticket
C5_Witness ==
    /\ Drawn /\ Checked
    /\ StartsWith0x(blockHash)
    /\ Len(result.value.blockHash) > 16
    /\ result.value.winningTicket
         # HashModTruncated(result.value.blockHash, result.value.totalTickets) + 1
    /\ verification.value.winningTicket = result.value.winningTicket

-----------------------------------------------------------------------------
(* Properties of calculateTickets and buildLotteryEntries *)

Calculated == lastCalc.kind = "calc"
Built == built.kind = "built"

\* C6: calculateTickets(balance) = min(floor(min(balance, 20000000) / 10000), 2000):
\* 0 below 10000, 1 at 10000, 2000 from 20000000 on, never above 2000, and
\* non-decreasing in the balance.
C6_TicketFormula ==
    Calculated =>
        LET b == lastCalc.balance
            t == lastCalc.tickets
        IN /\ t = Min(Min(b, 20000000) \div 10000, 2000)
           /\ b < 10000 => t = 0
           /\ b = 10000 => t = 1
           /\ b >= 20000000 => t = 2000
           /\ t <= 2000
           /\ (prevCalc.kind = "calc" /\ prevCalc.balance <= b) => prevCalc.tickets <= t

C6_Witness ==
    /\ Calculated
    /\ lastCalc.balance = 50000000 /\ lastCalc.tickets = 2000
    /\ prevCalc.kind = "calc"
    /\ prevCalc.balance = 10000 /\ prevCalc.tickets = 1

C8_FailClosed ==
    Built =>
        \A i \in 1..Len(built.entries) :
            LET e == built.entries[i]
            IN /\ e.wallet \notin DOMAIN eligibilityMap
                    => (e.eligible = FALSE /\ e.reason = Undefined)
               /\ e.eligible
                    => (e.wallet \in DOMAIN eligibilityMap
                        /\ eligibilityMap[e.wallet].eligible = TRUE)
               /\ e.wallet \in DOMAIN eligibilityMap
                    => (e.eligible = eligibilityMap[e.wallet].eligible
                        /\ e.reason = eligibilityMap[e.wallet].reason)

C8_Witness ==
    /\ Built
    /\ \E i, k \in 1..Len(built.entries) :
          /\ built.entries[i].wallet \notin DOMAIN eligibilityMap
          /\ built.entries[i].eligible = FALSE
          /\ built.entries[k].eligible

-----------------------------------------------------------------------------
(* Properties of the eligibility cache *)

Called == lastCall.kind = "call"

\* C9 as claimed: a call made less than CACHE_TTL after a history query for
\* the same pair completed, whatever that query's outcome (eligible, sold or
\* failed), sends no request and returns the result of that query.
C9_SecondCallFromCache ==
    (Called /\ lastCall.prev # None)
        => (~lastCall.network /\ lastCall.result = lastCall.prev.result)

\* C9, amended: a call made less than CACHE_TTL after the last history query
\* for the same pair completed successfully (eligible or sold), with no clear
\* in between, sends no request and returns the result of that query.
C9_SecondCallAfterSuccess ==
    (Called /\ lastCall.prev # None /\ lastCall.prev.ok)
        => (~lastCall.network /\ lastCall.result = lastCall.prev.result)

\* a call answered from a "sold" entry in the last millisecond of its TTL
C9_Witness ==
    /\ Called
    /\ lastCall.prev # None /\ lastCall.prev.ok
    /\ ~lastCall.prev.result.eligible
    /\ ~lastCall.network
    /\ lastCall.result = lastCall.prev.result
    /\ CacheKey(lastCall.mint, lastCall.wallet) \in DOMAIN eligibilityCache
    /\ now - eligibilityCache[CacheKey(lastCall.mint, lastCall.wallet)].timestamp
          = CACHE_TTL - 1

\* C10 as claimed: the first call for a pair after clearEligibilityCache, and
\* every call that finds an entry at least CACHE_TTL old, sends a request.
C10_FreshRequestAfterExpiryOrClear ==
    (Called /\ (lastCall.afterClear \/ lastCall.expired)) => lastCall.network

-----------------------------------------------------------------------------
(* Properties of the eligibility check and of batchCheckSells *)

Returned == phase = "returned"

\* the checks of the current batch that sent a request and got its response
Answered == DOMAIN batchResults \cap fetched

QueryFailed(walletAddress) == ShapeOf(walletAddress) \in {"throw", "status"}

\* some transaction of the history holds a transfer of the token, out of the
\* wallet, of a positive amount
HasOutgoingTransfer(body, tokenMint, walletAddress) ==
    \E j \in 1..Len(body) :
        /\ "tokenTransfers" \in DOMAIN body[j]
        /\ \E t \in 1..Len(body[j].tokenTransfers) :
              /\ body[j].tokenTransfers[t].mint = tokenMint
              /\ body[j].tokenTransfers[t].fromUserAccount = walletAddress
              /\ body[j].tokenTransfers[t].tokenAmount > 0

\* C11: a check that missed the cache and whose history query succeeded is
\* eligible exactly when no transaction of the history holds a transfer of
\* tokenMint out of the wallet with a positive amount; histories with only
\* transfers of another mint, incoming transfers or zero amounts are eligible.
C11_EligibleIffNoOutgoingTransfer ==
    \A k \in Answered :
        LET response == ResponseFor(wallets[k])
        IN (response.kind = "http" /\ response.ok)
              => /\ batchResults[k].eligible
                        <=> ~HasOutgoingTransfer(response.body, Mint, wallets[k])
                 /\ ShapeOf(wallets[k]) \in {"empty", "plain", "zero", "otherMint", "incoming"}
                        => batchResults[k].eligible

\* an incoming transfer leaves the first wallet eligible while the sale of
\* the second one makes that one ineligible
C11_Witness ==
    /\ {1, 2} \subseteq Answered
    /\ wallets[1] # wallets[2]
    /\ history.first = "incoming" /\ batchResults[1].eligible
    /\ history.rest = "sale" /\ ~batchResults[2].eligible

\* C12: a wallet whose history query fails gets eligible = false with a
\* reason, never eligible = true; batchCheckSells goes on to return, with a
\* result for every wallet, and the other wallets get the result of their own
\* history.
C12_FailedQueryFailsClosed ==
    /\ \A k \in Answered :
          QueryFailed(wallets[k])
              => /\ ~batchResults[k].eligible
                 /\ batchResults[k].reason \notin {Undefined, <<>>}
    /\ ~Returned => ENABLED NextBatch
    /\ Returned =>
          \A k \in 1..Len(wallets) :
              LET w == wallets[k]
              IN /\ w \in DOMAIN results
                 /\ QueryFailed(w) => /\ ~results[w].eligible
                                      /\ results[w].reason \notin {Undefined, <<>>}
                 /\ ~QueryFailed(w) =>
                        results[w].eligible
                            = ~HasOutgoingTransfer(ResponseFor(w).body, Mint, w)

\* the query of the first wallet threw, the others are eligible
C12_Witness ==
    /\ Returned
    /\ Len(wallets) > BATCH_SIZE
    /\ history.first = "throw"
    /\ ~results[wallets[1]].eligible
    /\ results[wallets[1]].reason = <<"Error checking transaction history">>
    /\ \A k \in 2..Len(wallets) : wallets[k] # wallets[1] /\ results[wallets[k]].eligible

\* C13: when batchCheckSells returns, the keys of the result map are exactly
\* the input wallets, for every input length and with repeated wallets.
C13_KeySetIsInputSet ==
    Returned => DOMAIN results = Range(wallets)

\* more wallets than one batch, pairwise different, each with its key
C13_Witness ==
    /\ Returned
    /\ Len(wallets) > BATCH_SIZE
    /\ Cardinality(DOMAIN results) = Len(wallets)
    /\ DOMAIN results = Range(wallets)

\* the batch (from 0) the index belongs to
BatchNo(k) == (k - 1) \div BATCH_SIZE

\* C14: at most 10 checks are started and not completed, and a check of a
\* later batch is started only when every check of the earlier batches has
\* completed.
C14_BoundedWithBarrier ==
    /\ Cardinality(started \ completed) <= 10
    /\ \A j \in started : \A k \in 1..Len(wallets) :
          BatchNo(k) < BatchNo(j) => k \in completed

\* the second batch is in flight after the ten checks of the first completed
C14_Witness ==
    /\ phase = "await"
    /\ batchIndex = BATCH_SIZE
    /\ started \ completed # {}
    /\ 1..BATCH_SIZE \subseteq completed
    /\ fetched = started

\* C15: onProgress is called once per batch, after the checks of the batch
\* completed, ceil(n/10) times in all; the reported count increases strictly,
\* is the number of wallets whose checks completed, and is n on the last call.
C15_ProgressOncePerBatch ==
    LET n == Len(wallets)
        calls == Len(progress)
    IN IF ~onProgress THEN calls = 0 ELSE
       /\ calls = CASE phase = "await" -> batchIndex \div BATCH_SIZE
                    [] phase = "sleep" -> batchIndex \div BATCH_SIZE + 1
                    [] OTHER -> Min(batchIndex \div BATCH_SIZE, (n + 9) \div 10)
       /\ \A j \in 1..calls :
             /\ progress[j] = <<Min(10 * j, n), n>>
             /\ 1..progress[j][1] \subseteq completed
             /\ j > 1 => progress[j][1] > progress[j - 1][1]
       /\ (phase # "await" /\ calls > 0)
             => progress[calls][1] = Cardinality(completed)
       /\ Returned => /\ calls = (n + 9) \div 10
                      /\ n > 0 => progress[calls][1] = n

\* eleven wallets: one call after the first ten, one after the last
C15_Witness ==
    /\ Returned
    /\ onProgress
    /\ progress = <<<<10, 11>>, <<11, 11>>>>

-----------------------------------------------------------------------------
(* Properties of the holder listings *)

\* the request was refused or failed: a thrown error, a non-ok status, or an
\* error in the helius body
RequestFailed(entry) ==
    \/ entry.response.kind = "throw"
    \/ ~entry.response.ok
    \/ entry.provider = "helius" /\ entry.response.kind = "refused"

\* owner and balance of the holders a logged page lists, zero amounts left out
HoldersOfPage(entry) ==
    IF RequestFailed(entry) \/ entry.response.kind # "page" THEN <<>>
    ELSE IF entry.provider = "birdeye"
    THEN LET items == BirdeyeItems(entry.at, entry.response.len)
         IN [j \in 1..Len(items) |-> <<items[j].owner, items[j].ui_amount>>]
    ELSE LET accounts == IF entry.response.len = 0 THEN <<>>
                         ELSE IF entry.response.len = Len(ZeroBalanceAccounts)
                         THEN ZeroBalanceAccounts
                         ELSE HeliusAccounts(entry.at)
             kept == SelectSeq(accounts, LAMBDA a : a.amount \notin {<<>>, <<48>>})
         IN [j \in 1..Len(kept) |->
                <<kept[j].owner,
                  CHOOSE tokens \in {5000, 15000, 25000} :
                      kept[j].amount = AmountText(tokens)>>]

RECURSIVE HoldersOfPages(_, _)
HoldersOfPages(log, upTo) ==
    IF upTo = 0 THEN <<>>
    ELSE HoldersOfPages(log, upTo - 1) \o HoldersOfPage(log[upTo])

\* owner and balance of the accumulated holders
Listed == [j \in 1..Len(fetchHolders) |-> <<fetchHolders[j].owner, fetchHolders[j].balance>>]

\* the two lists hold the same elements the same number of times
SameElements(a, b) ==
    /\ Len(a) = Len(b)
    /\ \A x \in Range(a) \cup Range(b) :
          Cardinality({j \in 1..Len(a) : a[j] = x})
              = Cardinality({j \in 1..Len(b) : b[j] = x})

\* C19: when a page request fails (non-ok status, thrown error) after k pages
\* were read, the listing sends no further request and returns, as a normal
\* result, the holders of those k pages: in page order for birdeye, sorted by
\* balance for helius.
C19_FailureReturnsPagesRead ==
    /\ \A j \in 1..(Len(pageLog) - 1) : ~RequestFailed(pageLog[j])
    /\ (pageLog # <<>> /\ RequestFailed(pageLog[Len(pageLog)]))
          => /\ fetchPhase = "returned"
             /\ LET read == HoldersOfPages(pageLog, Len(pageLog) - 1)
                IN IF provider = "birdeye" THEN Listed = read
                   ELSE /\ SameElements(Listed, read)
                        /\ \A j \in 1..(Len(Listed) - 1) : Listed[j][2] >= Listed[j + 1][2]

\* a full birdeye page was read, the request for the second page got status 500
C19_Witness ==
    /\ provider = "birdeye"
    /\ fetchPhase = "returned"
    /\ Len(pageLog) = 2
    /\ pageLog[2].response.kind = "http"
    /\ ~pageLog[2].response.ok
    /\ pageLog[2].response.status = 500
    /\ Len(fetchHolders) = 100
    /\ Listed = HoldersOfPage(pageLog[1])

\* the page of a logged birdeye request that did not fail, <<>> when the
\* body has no items
ItemsOf(entry) ==
    IF RequestFailed(entry) \/ entry.response.kind # "page" THEN <<>>
    ELSE BirdeyeItems(entry.at, entry.response.len)

\* C20: the birdeye listing requests offsets 0, 100, 200, ... in order, none
\* at maxHolders or beyond; every page before the last one read is full; once
\* it has returned without a failed request the last page was empty or short
\* or the next offset reached maxHolders; the holders of every page read are
\* in the result in page order.
C20_BirdeyePagination ==
    provider = "birdeye" =>
        /\ \A j \in 1..Len(pageLog) :
              /\ pageLog[j].at = 100 * (j - 1)
              /\ pageLog[j].at < maxHolders
        /\ fetchPhase \in {"request", "sleep"} => offset = 100 * Len(pageLog)
        /\ fetchPhase = "request" => offset < maxHolders
        /\ \A j \in 1..(Len(pageLog) - 1) : Len(ItemsOf(pageLog[j])) = 100
        /\ (fetchPhase = "returned" /\ pageLog # <<>>
                /\ ~RequestFailed(pageLog[Len(pageLog)]))
              => \/ Len(ItemsOf(pageLog[Len(pageLog)])) < 100
                 \/ 100 * Len(pageLog) >= maxHolders
        /\ Listed = HoldersOfPages(pageLog, Len(pageLog))

\* maxHolders = 250: offsets 0, 100 and 200 bring full pages and offset 300
\* is not requested, so that 300 holders are returned
C20_Witness ==
    /\ provider = "birdeye"
    /\ fetchPhase = "returned"
    /\ maxHolders = limit * MaxPages - 50
    /\ maxHolders < Len(fetchHolders)
    /\ Len(pageLog) = MaxPages
    /\ \A j \in 1..Len(pageLog) : Len(ItemsOf(pageLog[j])) = 100
    /\ Len(fetchHolders) = 100 * Len(pageLog)

-----------------------------------------------------------------------------
(* Properties of the draw request *)

Done == postPhase = "done"

Succeeded == Done /\ postResponse.status = 200

\* the birdeye request got the status of a plan that does not include the listing
TierRefused(entry) ==
    /\ entry.provider = "birdeye"
    /\ entry.response.kind = "http"
    /\ ~entry.response.ok
    /\ entry.response.status = 404

\* the birdeye request threw or got another non-ok status
GenericFailure(entry) ==
    /\ entry.provider = "birdeye"
    /\ \/ entry.response.kind = "throw"
       \/ entry.response.kind = "http" /\ ~entry.response.ok /\ entry.response.status # 404

HeliusQueried == \E j \in 1..Len(pageLog) : pageLog[j].provider = "helius"

\* the holders the helius requests of the log listed
RECURSIVE HeliusListed(_)
HeliusListed(log) ==
    IF log = <<>> THEN <<>>
    ELSE (IF Head(log).provider = "helius" THEN HoldersOfPage(Head(log)) ELSE <<>>)
            \o HeliusListed(Tail(log))

\* C16: no wallet of the excluded-address set is handed to the eligibility
\* check, gets a history request or a cache entry, is among the entries of
\* the answer or is the winner, whatever its balance and history.
C16_ExcludedNeverEntered ==
    /\ \A k \in 1..Len(wallets) : wallets[k] \notin EXCLUDED_ADDRESSES
    /\ \A k \in fetched : wallets[k] \notin EXCLUDED_ADDRESSES
    /\ \A a \in EXCLUDED_ADDRESSES : CacheKey(Mint, a) \notin DOMAIN eligibilityCache
    /\ \A j \in 1..Len(eligibleHolders) : eligibleHolders[j].owner \notin EXCLUDED_ADDRESSES
    /\ Succeeded =>
          /\ \A j \in 1..Len(postResponse.entries) :
                postResponse.entries[j].wallet \notin EXCLUDED_ADDRESSES
          /\ postResponse.result # Null
                => postResponse.result.winner.wallet \notin EXCLUDED_ADDRESSES

\* the listing holds an excluded address with 25,000 tokens and a clean
\* history; the other holders were checked and a winner was picked
C16_Witness ==
    /\ Succeeded
    /\ \E j \in 1..Len(allHolders) :
          /\ allHolders[j].owner \in EXCLUDED_ADDRESSES
          /\ allHolders[j].balance = 25000
    /\ history.rest = "empty"
    /\ fetched # {}
    /\ Len(postResponse.entries) > 0
    /\ postResponse.result # Null

\* C17 as stated: when the first birdeye page request gets the tier status,
\* helius is queried and the request is answered without an error, from the
\* holders helius listed, with helius as the source.
C17_TierFallsBackTransparently ==
    (Done /\ pageLog # <<>> /\ TierRefused(pageLog[1]))
        => /\ HeliusQueried
           /\ postResponse.status = 200
           /\ postResponse.stats.source = "helius"
           /\ postResponse.stats.totalHolders = Len(HeliusListed(pageLog))

\* C17, amended: when the first birdeye page request gets the tier status,
\* helius is queried; if it lists at least one holder the request is answered
\* without an error from those holders with helius as the source, and if it
\* lists none the answer is the error 'No holders found'.
C17_TierFallsBackToSecondary ==
    (pageLog # <<>> /\ TierRefused(pageLog[1]))
        => /\ postPhase # "birdeye" => usedSource = "helius"
           /\ Done =>
                 /\ HeliusQueried
                 /\ IF Len(HeliusListed(pageLog)) > 0
                    THEN /\ postResponse.status = 200
                         /\ postResponse.stats.source = "helius"
                         /\ postResponse.stats.totalHolders = Len(HeliusListed(pageLog))
                    ELSE postResponse = ErrorResponse(400, "No holders found")

\* tier status on the first birdeye page, two helius pages, answered from helius
C17_Witness ==
    /\ Succeeded
    /\ TierRefused(pageLog[1])
    /\ Len(pageLog) = 3
    /\ postResponse.stats.source = "helius"
    /\ postResponse.stats.totalHolders = 4
    /\ Len(postResponse.entries) = 3

\* C18: once the birdeye listing is over, a tier status on any of its pages
\* has made the request fall back to helius, and a generic failure without a
\* tier status has not.
C18_OnlyTierTriggersFallback ==
    (birdeyeKey /\ postPhase \in {"helius", "check", "done"})
        => /\ (\E j \in 1..Len(pageLog) : TierRefused(pageLog[j]))
                => usedSource = "helius"
           /\ (/\ \E j \in 1..Len(pageLog) : GenericFailure(pageLog[j])
               /\ \A j \in 1..Len(pageLog) : ~TierRefused(pageLog[j]))
                => usedSource = "birdeye"

-----------------------------------------------------------------------------
(* Properties of the selection on a caller's list *)

RandomPicked == randomResult.kind = "picked"
RandomDrawn  == RandomPicked /\ randomResult.value.kind = "result"

\* the positions of the caller's list that hold an eligible entry with a ticket
EligiblePositions == {i \in 1..Len(entries) : entries[i].eligible /\ entries[i].tickets > 0}

\* C21: when no entry has eligible = true and tickets > 0, pickWinner and
\* pickWinnerVerifiable both return no result (null), never a winner, whatever
\* the seed.
C21_NoWinnerWithoutEligible ==
    (EligiblePositions = {})
        => /\ RandomPicked => randomResult.value = Null
           /\ Picked => result.value = Null

\* both called on a list of an ineligible entry with tickets and an eligible
\* entry with none, with a seed BigInt would reject
C21_Witness ==
    /\ RandomPicked /\ Picked
    /\ EligiblePositions = {}
    /\ \E i \in 1..Len(entries) : ~entries[i].eligible /\ entries[i].tickets > 0
    /\ \E i \in 1..Len(entries) : entries[i].eligible /\ entries[i].tickets = 0
    /\ ~IsHexLiteral(CleanHash(blockHash))
    /\ randomResult.value = Null
    /\ result.value = Null

\* a < b, a = b or a > b in the order of the character codes: -1, 0 or 1
ByteCompare(a, b) == CompareWeights(a, b)

AscendingByBytes(list) ==
    \A i, j \in 1..Len(list) : i < j => ByteCompare(list[i].wallet, list[j].wallet) <= 0

\* the list put in the order of the character codes of the wallets
ByteSorted(list) ==
    CHOOSE sorted \in Reorderings(list) :
        /\ AscendingByBytes(sorted)
        /\ \A i, j \in 1..Len(sorted) :
              (i < j /\ sorted[i].wallet = sorted[j].wallet)
                  => \E k, l \in 1..Len(list) :
                        k < l /\ list[k] = sorted[i] /\ list[l] = sorted[j]

\* C22: the entries of a snapshot are ascending by wallet in the order of the
\* character codes, and pickWinnerVerifiable walks the eligible entries in
\* that order.
C22_SnapshotInByteOrder ==
    /\ Snapped => AscendingByBytes(snapshot.value.entries)
    /\ (Drawn /\ result.from = "entries")
          => LET walked == ByteSorted(EligibleOf(entries))
             IN result.value.winner.wallet
                   = walked[FindWinner(walked, result.value.winningTicket)].wallet

\* the number of positions of a list that hold e
Occurrences(list, e) == Cardinality({i \in 1..Len(list) : list[i] = e})

RECURSIVE TicketsAt(_)
TicketsAt(positions) ==
    IF positions = {} THEN 0
    ELSE LET i == CHOOSE k \in positions : TRUE
         IN entries[i].tickets + TicketsAt(positions \ {i})

\* C23: createSnapshot(entries, mint) returns the input entries with eligible
\* = true and tickets > 0, each as often as the input holds it and no other,
\* with totalTickets the sum of their tickets, totalEligible their number and
\* tokenMint = mint.
C23_SnapshotIsEligibleEntries ==
    (Snapped /\ "tokenMint" \in DOMAIN snapshot)
        => LET snap == snapshot.value
           IN /\ \A e \in SelectEntries :
                    Occurrences(snap.entries, e)
                        = IF e.eligible /\ e.tickets > 0 THEN Occurrences(entries, e) ELSE 0
              /\ Len(snap.entries) = Cardinality(EligiblePositions)
              /\ snap.totalTickets = TicketsAt(EligiblePositions)
              /\ snap.totalEligible = Cardinality(EligiblePositions)
              /\ snap.tokenMint = snapshot.tokenMint

\* a list of an ineligible entry with tickets and an eligible one, snapshot for "N"
C23_Witness ==
    /\ Snapped
    /\ snapshot.tokenMint = <<78>>
    /\ Len(entries) = 2
    /\ ~entries[1].eligible /\ entries[1].tickets = 2
    /\ entries[2].eligible /\ entries[2].tickets = 1
    /\ snapshot.value.entries = <<entries[2]>>
    /\ snapshot.value.totalTickets = 1

\* what C24 asks of one returned result
WinnerIsEligibleEntry(r) ==
    /\ \E i \in EligiblePositions : entries[i] = r.winner
    /\ r.winner.eligible /\ r.winner.tickets >= 1
    /\ r.totalTickets = TicketsAt(EligiblePositions)
    /\ r.winningTicket >= 1 /\ r.winningTicket <= r.totalTickets

\* C24: a winner returned by pickWinner or pickWinnerVerifiable is an input
\* entry with eligible = true and tickets >= 1, and winningTicket lies in
\* 1..totalTickets, the sum of the tickets of the eligible entries alone.
C24_WinnerIsEligibleEntry ==
    /\ RandomDrawn => WinnerIsEligibleEntry(randomResult.value)
    /\ (Drawn /\ result.from = "entries") => WinnerIsEligibleEntry(result.value)

\* both draws on a list whose first entry is ineligible with two tickets
C24_Witness ==
    /\ RandomDrawn /\ Drawn
    /\ result.from = "entries"
    /\ Len(entries) = 2
    /\ ~entries[1].eligible /\ entries[1].tickets = 2
    /\ entries[2].eligible /\ entries[2].tickets = 2
    /\ randomResult.value.winner = entries[2]
    /\ randomResult.value.winningTicket = 2
    /\ result.value.winner = entries[2]
    /\ result.value.totalTickets = 2

-----------------------------------------------------------------------------
(* Properties of the bounds and the pace of the listings and of the batch  *)
(* check                                                                   *)

ListingReturned == fetchPhase = "returned"

\* C25: the list a holder listing returns holds maxHolders holders at most.
C25_AtMostMaxHolders ==
    ListingReturned => Len(fetchHolders) <= maxHolders

\* a logged helius page with accounts, fewer than the page size, and a cursor
ShortPageWithCursor(r) ==
    /\ r.kind = "page"
    /\ r.len > 0 /\ r.len < heliusLimit
    /\ r.cursor # Undefined

\* a logged helius page without accounts or without a cursor
EndOfListing(r) == r.kind = "page" /\ (r.len = 0 \/ r.cursor = Undefined)

\* C26: the helius listing ends at a response without a cursor or without
\* accounts; a page with accounts and a cursor does not end it, however short
\* the page (the listing then ends only once maxHolders holders are held);
\* the first request carries no cursor and every later one the cursor of the
\* response before it.
C26_HeliusFollowsCursor ==
    (provider = "helius")
        => LET n == Len(pageLog)
           IN /\ n > 0 => pageLog[1].at = CursorPage(Undefined)
              /\ \A j \in 2..n :
                    /\ ShortPageWithCursor(pageLog[j - 1].response)
                    /\ pageLog[j].at = CursorPage(pageLog[j - 1].response.cursor)
              /\ (n > 0 /\ EndOfListing(pageLog[n].response)) => ListingReturned
              /\ (n > 0 /\ ShortPageWithCursor(pageLog[n].response))
                    => /\ fetchPhase \in {"sleep", "request", "returned"}
                       /\ ListingReturned => Len(fetchHolders) >= maxHolders

\* three pages of three accounts, the first two with a cursor
C26_Witness ==
    /\ provider = "helius"
    /\ ListingReturned
    /\ maxHolders = DEFAULT_MAX_HOLDERS
    /\ Len(pageLog) = 3
    /\ ShortPageWithCursor(pageLog[1].response)
    /\ ShortPageWithCursor(pageLog[2].response)
    /\ pageLog[2].at = 2 /\ pageLog[3].at = 3
    /\ pageLog[3].response.kind = "page" /\ pageLog[3].response.cursor = Undefined
    /\ Len(fetchHolders) = 6

\* the delay between two page requests of a listing
PageDelay(p) == IF p = "birdeye" THEN 50 ELSE 100

\* C27: a page request is sent only when the one before it has been answered
\* and the delay of the listing has passed since, and every response answers
\* the one request in flight.
C27_SequentialRateLimited ==
    [][/\ (fetchPhase' = "request" /\ fetchPhase # "request" /\ pageLog # <<>>)
            => /\ fetchPhase = "sleep"
               /\ now' >= pageLog[Len(pageLog)].done + PageDelay(provider)
       /\ (pageLog' # pageLog)
            => /\ fetchPhase = "request" /\ fetchPhase' # "request"
               /\ pageLog' = Append(pageLog, pageLog'[Len(pageLog')])]_vars

\* the third birdeye request in flight, two delays after the first
C27_Witness ==
    /\ provider = "birdeye"
    /\ fetchPhase = "request"
    /\ Len(pageLog) = 2
    /\ pageLog[2].done >= pageLog[1].done + 50
    /\ now >= pageLog[2].done + 50

\* the number of groups of n wallets
Groups(n) == (n + BATCH_SIZE - 1) \div BATCH_SIZE

\* C28: the checks of a group start once the delay has been waited after
\* every group before it, and batchCheckSells returns without a delay after
\* the last group: one delay for every group but the last.
C28_DelayBetweenGroupsOnly ==
    /\ \A k \in started : now >= 100 * BatchNo(k)
    /\ phase = "sleep" => batchIndex + BATCH_SIZE < Len(wallets)
    /\ Returned =>
          now = IF Len(wallets) = 0 THEN 0 ELSE 100 * (Groups(Len(wallets)) - 1)

\* eleven wallets: two groups, one delay, two onProgress calls
C28_Witness ==
    /\ Returned
    /\ Len(wallets) = BATCH_SIZE + 1
    /\ started = 1..Len(wallets)
    /\ now = 100
    /\ onProgress /\ Len(progress) = 2

-----------------------------------------------------------------------------
(* Properties of the order of the stages of the draw request *)

\* a page request of a listing is awaiting its response
PageRequestOutstanding == fetchPhase = "request"

\* a logged birdeye response after which fetchAllHolders sends no request
EndsBirdeyeListing(r) ==
    \/ r.kind \in {"throw", "refused"}
    \/ ~r.ok
    \/ r.kind = "page" /\ r.len < limit

\* C29: no eligibility check starts before the holder listing has returned;
\* helius is queried only once the birdeye listing has returned, so after
\* every birdeye request was answered; the entries are built and the answer
\* is made only once every check of batchCheckSells has completed.
C29_StagesInOrder ==
    /\ (started # {} \/ phase # "idle")
          => /\ provider = "none" /\ fetchPhase = "idle"
             /\ postPhase \in {"check", "done"}
    /\ PageRequestOutstanding => (started = {} /\ fetched = {} /\ postResponse = NotCalled)
    /\ \A j, k \in 1..Len(pageLog) :
          (j < k /\ pageLog[j].provider = "helius") => pageLog[k].provider = "helius"
    /\ (provider = "helius" /\ birdeyeKey)
          => /\ pageLog # <<>>
             /\ pageLog[1].provider = "birdeye"
             /\ EndsBirdeyeListing(pageLog[1].response)
             /\ \A j \in 2..Len(pageLog) : pageLog[j].provider = "helius"
    /\ Succeeded
          => /\ phase = "returned"
             /\ started = 1..Len(wallets)
             /\ completed = started
             /\ DOMAIN results = Range(wallets)

\* birdeye refused, helius listed two pages, three wallets checked, a winner
C29_Witness ==
    /\ Succeeded
    /\ birdeyeKey
    /\ Len(pageLog) = 3
    /\ pageLog[1].provider = "birdeye"
    /\ pageLog[3].provider = "helius"
    /\ Len(wallets) = 3
    /\ fetched = 1..3
    /\ postResponse.result # Null

\* both listings are over and no page of either listed a holder
BothListedNone ==
    /\ postPhase \in {"check", "done"}
    /\ HeliusQueried
    /\ HoldersOfPages(pageLog, Len(pageLog)) = <<>>

\* C30: when neither birdeye nor helius lists a holder the request is answered
\* with the error 'No holders found'; no eligibility check is started, no
\* history request is sent and no winner is picked.
C30_NoHoldersEndsTheRequest ==
    BothListedNone
        => /\ Done
           /\ postResponse = ErrorResponse(400, "No holders found")
           /\ phase = "idle" /\ wallets = <<>>
           /\ started = {} /\ fetched = {}
           /\ eligibilityCache = <<>>

\* an empty first page from birdeye, then an empty page from helius
C30_Witness ==
    /\ Done
    /\ birdeyeKey
    /\ Len(pageLog) = 2
    /\ pageLog[1].provider = "birdeye"
    /\ pageLog[1].response.kind = "page" /\ pageLog[1].response.len = 0
    /\ pageLog[2].provider = "helius"
    /\ pageLog[2].response.kind = "page" /\ pageLog[2].response.len = 0
    /\ postResponse = ErrorResponse(400, "No holders found")
    /\ fetched = {}

-----------------------------------------------------------------------------
(* Frame of the selection, the snapshot and the verification *)

-----------------------------------------------------------------------------
(* Termination of the listings *)

\* the page requests a listing has had answered, and the one in flight
PageRequestsSent == Len(pageLog) + (IF PageRequestOutstanding THEN 1 ELSE 0)

\* C32: whatever the provider answers, a listing sends a number of page
\* requests that maxHolders bounds: the birdeye listing one for every limit
\* holders asked for, the helius listing at most one for every holder asked
\* for, pages of accounts without balance included.
C32_BoundedPageRequests ==
    /\ provider = "birdeye" => PageRequestsSent <= (maxHolders + limit - 1) \div limit
    /\ provider = "helius" => PageRequestsSent <= maxHolders

-----------------------------------------------------------------------------
(* Writes of the eligibility cache *)

\* the keys whose entry a step sets or replaces
KeysWritten ==
    {key \in DOMAIN eligibilityCache' :
        key \notin DOMAIN eligibilityCache \/ eligibilityCache'[key] # eligibilityCache[key]}

\* the pairs of which a history query completes in a step
PairsAnswered == {p \in Pairs : inflight'[p] < inflight[p]}

\* C33: an entry of the cache is set only by a history query of its own
\* (mint, wallet) that completes with a success status, and holds the outcome
\* of that query and the time of its completion; a query that fails, by its
\* status or by a thrown error, leaves the cache as it is.
C33_CacheWrittenOnSuccessOnly ==
    [][/\ \A key \in KeysWritten :
            \E p \in PairsAnswered :
                /\ key = CacheKey(p[1], p[2])
                /\ lastQuery'[p].ok
                /\ lastQuery'[p].doneAt = now
                /\ eligibilityCache'[key] =
                      [eligible |-> lastQuery'[p].result.eligible,
                       reason |-> lastQuery'[p].result.reason,
                       timestamp |-> now]
       /\ \A p \in PairsAnswered :
            ~lastQuery'[p].ok => eligibilityCache' = eligibilityCache]_vars

\* an entry of time 0, expired, with a failed query of its pair completed since
C33_Witness ==
    \E p \in Pairs :
        /\ CacheKey(p[1], p[2]) \in DOMAIN eligibilityCache
        /\ eligibilityCache[CacheKey(p[1], p[2])].timestamp = 0
        /\ eligibilityCache[CacheKey(p[1], p[2])].eligible
        /\ lastQuery[p] # None
        /\ ~lastQuery[p].ok
        /\ lastQuery[p].doneAt >= CACHE_TTL

=============================================================================
